---- MODULE Spec2Model ----
(***************************************************************************)
(* Model of the bare-metal peripheral subsystem: the I2C master            *)
(* transaction engine (drivers/i2c_driver.c), the BLE link engine          *)
(* (drivers/ble_driver.c) and the interrupt controller layer               *)
(* (hal/hal_gic.c).                                                        *)
(*                                                                         *)
(* Conventions                                                             *)
(*  - A register is modelled by what the code writes to it.  CR1 is the    *)
(*    set of its bits that are set; the START and STOP bits are command    *)
(*    bits that the controller clears by itself, so each write of one is   *)
(*    logged as an event and not kept in CR1.                              *)
(*  - A status register read is an input: the set of flag bits that are    *)
(*    set at that read (any subset).                                       *)
(*  - A busy-wait loop polls a flag; the hardware's behaviour during one   *)
(*    wait is the index (0-based) of the first poll at which the awaited   *)
(*    condition is observed, Never when it never is.                       *)
(*  - Pointers are small integers, NULL is 0; caller memory is mem.        *)
(*  - i2c_last / ble_last are history variables: the call just made, its   *)
(*    return value and the register/buffer/callback events it produced,    *)
(*    in program order (for ble_process also its dequeue calls, deq);      *)
(*    for an interrupt entry on an instance, st is the                     *)
(*    transfer state the handler found.  i2c_xfer counts, per instance,    *)
(*    what the interrupt handler did since the last accepted async request.*)
(*  - Further history variables are kept by the specifications that use   *)
(*    them and left alone by the others: ble_fifo (events enqueued and not *)
(*    yet dequeued), irq_last (the accesses of one interrupt dispatch),    *)
(*    i2c_round (init/deinit round trips), gic_last (the interrupt         *)
(*    controller call just made), i2c_wait (the last two exhausted waits), *)
(*    irq_sr1 (the status register value the last I2C entry read);         *)
(*    blk (the blocking call under way, one wait evaluation at a time);    *)
(*    i2c_cb (the completion callback an I2C interrupt entry is inside);   *)
(*    ble_pc is the position of the foreground inside ble_process where it *)
(*    runs statement by statement.                                         *)
(***************************************************************************)
EXTENDS Integers, Sequences, FiniteSets, TLC

VARIABLES g_i2c_handles, i2c_regs, mem, gic_enabled, gic_priority,
          i2c_last, i2c_xfer, focus,
          g_ble_handle, ble_regs, ble_last,
          ble_fifo, ble_pc, irq_last, i2c_round, gic_last, i2c_wait,
          irq_sr1, blk, i2c_cb

i2c_vars == <<g_i2c_handles, i2c_regs, mem, i2c_last>>
gic_vars == <<gic_enabled, gic_priority>>
ble_vars == <<g_ble_handle, ble_regs, ble_last>>
\* history and position variables used by some specifications only
aux_vars == <<ble_fifo, ble_pc, irq_last, i2c_round, gic_last, i2c_wait, irq_sr1,
             blk, i2c_cb>>

(***************************************************************************)
(* Program constants                                                       *)
(***************************************************************************)
STATUS_OK == 0
STATUS_ERROR == 1
STATUS_BUSY == 2
STATUS_TIMEOUT == 3
STATUS_INVALID_PARAM == 4
STATUS_NOT_READY == 5

NULL == 0

U8 == 256
U16 == 65536
\* 0xFFFFFFFF, the only 32-bit value above 2^31 - 1 the model meets (0U - 1U);
\* every other 32-bit quantity of the model stays below 2^31
U32_MAX == -1

I2C_INSTANCE_MAX == 2

I2C_DIR_WRITE == 0
I2C_DIR_READ == 1

I2C_STATE_IDLE == 0
I2C_STATE_BUSY_TX == 1
I2C_STATE_BUSY_RX == 2
I2C_STATE_ERROR == 3

I2C_CR1_PE == 0
I2C_CR1_ACK == 10
I2C_CR1_SWRST == 15

I2C_SR1_SB == 0
I2C_SR1_ADDR == 1
I2C_SR1_BTF == 2
I2C_SR1_RXNE == 6
I2C_SR1_TXE == 7
I2C_SR1_AF == 10

SYSTEM_CLOCK_HZ == 100000000
TIMEOUT_LOOP_COUNT == 10000

BLE_STATE_OFF == 0
BLE_STATE_IDLE == 1
BLE_STATE_ADVERTISING == 2
BLE_STATE_SCANNING == 3
BLE_STATE_CONNECTING == 4
BLE_STATE_CONNECTED == 5
BLE_STATE_DISCONNECTING == 6
BLE_STATE_ERROR == 7

BLE_EVT_NONE == 0
BLE_EVT_CONNECTED == 1
BLE_EVT_DISCONNECTED == 2
BLE_EVT_DATA_RECEIVED == 3
BLE_EVT_DATA_SENT == 4
BLE_EVT_ADV_STARTED == 5
BLE_EVT_ADV_STOPPED == 6
BLE_EVT_SCAN_RESULT == 7
BLE_EVT_ERROR == 8

BLE_MAX_PAYLOAD_SIZE == 244
BLE_EVENT_QUEUE_SIZE == 8
BLE_READY_BUDGET == 100000
BLE_TX_BUDGET == 100000
BLE_IRQ_PRIORITY == 128

BLE_CTRL_ENABLE == 0
BLE_CTRL_RESET == 1
BLE_CTRL_ADV_START == 4
BLE_CTRL_SCAN_START == 5
BLE_CTRL_CONN_INIT == 6
BLE_CTRL_TX_START == 8

BLE_INT_CONNECTED == 0
BLE_INT_DISCONNECTED == 1
BLE_INT_RX_DONE == 2
BLE_INT_TX_DONE == 3
BLE_INT_ERROR == 7

IRQ_BLE == 48
IRQ_I2C0 == 23
IRQ_I2C1 == 24
MAX_IRQ_NUM == 256
IRQS_PER_REGISTER == 32
I2C_IRQ_PRIORITY == 128

(***************************************************************************)
(* Bounds of the model                                                     *)
(***************************************************************************)
\* longest transfer requested
MaxLen == 2
\* the per-transfer counters of i2c_xfer saturate here
MaxCount == 2
\* most events queued since ble_init in the specification of all commands
MaxQueued == 3

(***************************************************************************)
(* Inputs                                                                  *)
(***************************************************************************)
Instances == 0 .. (I2C_INSTANCE_MAX - 1)
\* caller buffers (pointers): one the callers transmit from, one they
\* receive into; completion callbacks are function pointers 1, 2
TxBuf == NULL + 1
RxBuf == NULL + 2
Bufs == {TxBuf, RxBuf}
\* a buffer holds one cell more than the longest length requested
Cells == 0 .. MaxLen
\* the byte the data register delivers on a read
RxBytes == {165}
\* what the caller keeps in its buffers before any transfer
InitMem == [p \in Bufs |-> [k \in Cells |-> 16 * p + k + 1]]
\* transfer requests: device address, data pointer given or null, callback
Requests ==
    { [addr |-> 72,  data |-> TRUE,  cb |-> 1],
      [addr |-> 200, data |-> TRUE,  cb |-> 2],
      [addr |-> 72,  data |-> FALSE, cb |-> 1],
      [addr |-> 72,  data |-> TRUE,  cb |-> NULL] }
\* the data pointer of a request, for a transmit and for a receive
\* the requests with a buffer and a callback
ValidRequests == {r \in Requests : r.data /\ r.cb # NULL}
TxData(r) == IF r.data THEN TxBuf ELSE NULL
RxData(r) == IF r.data THEN RxBuf ELSE NULL
Lens == 0 .. MaxLen
\* timeout_ms arguments: 429497 * 10000 exceeds 32 bits
Timeouts == {0, 1, 429497}
\* the hardware behaviour of a wait whose condition is never seen: a value
\* that is no poll index
Never == 0 - 1
\* i2c_config_t values
Configs ==
    << [clock_speed |-> 400000, own_address |-> 0, use_interrupts |-> TRUE] >>
\* config pointer arguments: NULL, or a pointer to Configs[c]
ConfigArgs == {NULL} \cup DOMAIN Configs
Sr1Flags == {I2C_SR1_SB, I2C_SR1_ADDR, I2C_SR1_BTF, I2C_SR1_RXNE,
             I2C_SR1_TXE, I2C_SR1_AF}

(***************************************************************************)
(* Helpers                                                                 *)
(***************************************************************************)
\* one logged event
Ev(k, a, b) == [k |-> k, a |-> a, b |-> b]

\* BIT_CHECK on a register read modelled as the set of its set bits
BIT_CHECK(reg, bit) == bit \in reg

\* number of events of kind k in a log
RECURSIVE CountEv(_, _)
CountEv(ev, k) ==
    IF ev = <<>> THEN 0
    ELSE (IF Head(ev).k = k THEN 1 ELSE 0) + CountEv(Tail(ev), k)

\* saturating increment of a history counter
Bump(c, n) == IF c + n > MaxCount THEN MaxCount ELSE c + n

\* x + 1 and x - 1 in 32-bit unsigned arithmetic
Inc32(x) == IF x = U32_MAX THEN 0 ELSE x + 1
Dec32(x) == IF x = 0 THEN U32_MAX ELSE x - 1
\* a >= b on 32-bit unsigned values
Geq32(a, b) == IF a = U32_MAX THEN TRUE ELSE IF b = U32_MAX THEN FALSE ELSE a >= b

\* (a * b) mod 2^32 as the pair of its 16-bit halves, for a < 2^31, b < 2^15
Mul32(a, b) ==
    LET lo_prod == (a % U16) * b
    IN  [hi |-> ((a \div U16) * b + lo_prod \div U16) % U16, lo |-> lo_prod % U16]

\* n < c, for a poll index n and a 32-bit count c given by its halves
PollBefore(n, c) ==
    /\ n # Never
    /\ \/ n \div U16 < c.hi
       \/ n \div U16 = c.hi /\ n % U16 < c.lo

\* a | b on bytes
RECURSIVE BitOr(_, _)
BitOr(a, b) ==
    IF a = 0 THEN b ELSE IF b = 0 THEN a
    ELSE (IF a % 2 = 1 \/ b % 2 = 1 THEN 1 ELSE 0) + 2 * BitOr(a \div 2, b \div 2)

\* x | (1 << bit) on naturals
OrBit(x, bit) ==
    IF (x \div (2 ^ bit)) % 2 = 1 THEN x ELSE x + 2 ^ bit

\* the address byte built without the shift
AddrByte_NoShift(addr, dir) == BitOr(addr, dir)
\* (u8_t)((addr << 1U) | dir)
\* the shifted address is even, so or-ing the direction bit adds it
AddrByte(addr, dir) == ((addr * 2) % U8) + dir

(***************************************************************************)
(* Interrupt controller (hal_gic.c)                                        *)
(***************************************************************************)
\* a read-modify-write that leaves out the clearing of the byte
GicPriorityWord_NoClear(word, irq_num, priority) ==
    LET byte == (irq_num % 4) + 1
    IN  [word EXCEPT ![byte] = BitOr(@, priority)]

\* the read-modify-write of gic_set_priority on one priority word, a word
\* being the tuple of its four bytes, lowest first
GicPriorityWord(word, irq_num, priority) ==
    LET byte == (irq_num % 4) + 1
        cleared == [word EXCEPT ![byte] = 0]
    IN  [cleared EXCEPT ![byte] = BitOr(@, priority)]

\* gic_set_priority: [ret, prio], prio the priority table afterwards
gic_set_priority(prio, irq_num, priority) ==
    IF irq_num >= MAX_IRQ_NUM
    THEN [ret |-> STATUS_INVALID_PARAM, prio |-> prio]
    ELSE LET reg_idx == irq_num \div 4
         IN  [ret  |-> STATUS_OK,
              prio |-> [prio EXCEPT ![reg_idx] =
                            GicPriorityWord(prio[reg_idx], irq_num, priority)]]

\* the lines whose enable bit a write of the bit set val to the
\* set-enable or clear-enable register reg_idx addresses
GicLinesOf(reg_idx, val) == {reg_idx * IRQS_PER_REGISTER + b : b \in val}

\* a gic_enable_irq that takes the bit position modulo 8
gic_enable_irq_ByteBit(en, irq_num) ==
    IF irq_num >= MAX_IRQ_NUM
    THEN [ret |-> STATUS_INVALID_PARAM, en |-> en, wr |-> <<>>]
    ELSE [ret |-> STATUS_OK,
          en  |-> en \cup GicLinesOf(irq_num \div IRQS_PER_REGISTER, {irq_num % 8}),
          wr  |-> <<Ev("ISENABLER", irq_num \div IRQS_PER_REGISTER, {irq_num % 8})>>]

\* gic_enable_irq: [ret, en, wr], en the set of enabled lines afterwards,
\* wr the register writes made; a one written to GICD_ISENABLER sets the
\* line's enable bit, a zero leaves it
gic_enable_irq(en, irq_num) ==
    IF irq_num >= MAX_IRQ_NUM
    THEN [ret |-> STATUS_INVALID_PARAM, en |-> en, wr |-> <<>>]
    ELSE LET reg_idx == irq_num \div IRQS_PER_REGISTER
             bit_pos == irq_num % IRQS_PER_REGISTER
         IN  [ret |-> STATUS_OK,
              en  |-> en \cup GicLinesOf(reg_idx, {bit_pos}),
              wr  |-> <<Ev("ISENABLER", reg_idx, {bit_pos})>>]

\* gic_disable_irq: [ret, en, wr]; a one written to GICD_ICENABLER clears
\* the line's enable bit
gic_disable_irq(en, irq_num) ==
    IF irq_num >= MAX_IRQ_NUM
    THEN [ret |-> STATUS_INVALID_PARAM, en |-> en, wr |-> <<>>]
    ELSE LET reg_idx == irq_num \div IRQS_PER_REGISTER
             bit_pos == irq_num % IRQS_PER_REGISTER
         IN  [ret |-> STATUS_OK,
              en  |-> en \ GicLinesOf(reg_idx, {bit_pos}),
              wr  |-> <<Ev("ICENABLER", reg_idx, {bit_pos})>>]

(***************************************************************************)
(* I2C transaction engine (i2c_driver.c)                                   *)
(***************************************************************************)
\* g_i2c_handles[] as statically initialised
InitHandle ==
    [ state       |-> I2C_STATE_IDLE,
      rx_buffer   |-> NULL,
      tx_buffer   |-> NULL,
      buffer_len  |-> 0,
      buffer_idx  |-> 0,
      dev_address |-> 0,
      callback    |-> NULL,
      initialized |-> FALSE ]

InitRegs == [CR1 |-> {}, CR2 |-> 0, OAR1 |-> 0, CCR |-> 0, TRISE |-> 0]

InitXfer == [stops |-> 0, ackclr |-> 0, cbs |-> 0]

I2cIrqNum(instance) == IF instance = 0 THEN IRQ_I2C0 ELSE IRQ_I2C1

\* the register values i2c_init programs for a configuration
I2cInitRegs(regs, config) ==
    LET pclk_mhz == SYSTEM_CLOCK_HZ \div 1000000
        standard == config.clock_speed <= 100000
        ccr_val  == IF standard
                    THEN SYSTEM_CLOCK_HZ \div (config.clock_speed * 2)
                    ELSE OrBit(SYSTEM_CLOCK_HZ \div (config.clock_speed * 3), 15)
        trise    == IF standard THEN pclk_mhz + 1
                    ELSE ((pclk_mhz * 300) \div 1000) + 1
        cr2      == pclk_mhz % 64
    IN  [ CR1   |-> ((regs.CR1 \cup {I2C_CR1_SWRST}) \ {I2C_CR1_SWRST})
                        \cup {I2C_CR1_PE, I2C_CR1_ACK},
          CR2   |-> IF config.use_interrupts THEN OrBit(OrBit(cr2, 9), 10) ELSE cr2,
          OAR1  |-> IF config.own_address # 0
                    THEN OrBit(config.own_address * 2, 14)
                    ELSE regs.OAR1,
          CCR   |-> ccr_val,
          TRISE |-> trise ]

\* an i2c_init that leaves the transfer state as it finds it
i2c_init_KeepState(instance, cfg) ==
    IF cfg = NULL \/ instance >= I2C_INSTANCE_MAX
    THEN /\ i2c_last' = [op |-> "init", inst |-> instance,
                         ret |-> STATUS_INVALID_PARAM, ev |-> <<>>]
         /\ UNCHANGED <<g_i2c_handles, i2c_regs, mem, i2c_xfer, gic_vars>>
    ELSE /\ i2c_regs' = [i2c_regs EXCEPT ![instance] = I2cInitRegs(@, Configs[cfg])]
         /\ gic_priority' = gic_set_priority(gic_priority, I2cIrqNum(instance),
                                             I2C_IRQ_PRIORITY).prio
         /\ gic_enabled' = gic_enable_irq(gic_enabled, I2cIrqNum(instance)).en
         /\ g_i2c_handles' = [g_i2c_handles EXCEPT ![instance].initialized = TRUE]
         /\ i2c_last' = [op |-> "init", inst |-> instance,
                         ret |-> STATUS_OK, ev |-> <<>>]
         /\ UNCHANGED <<mem, i2c_xfer>>

\* i2c_init(instance, config), cfg the config pointer
i2c_init(instance, cfg) ==
    IF cfg = NULL \/ instance >= I2C_INSTANCE_MAX
    THEN /\ i2c_last' = [op |-> "init", inst |-> instance,
                         ret |-> STATUS_INVALID_PARAM, ev |-> <<>>]
         /\ UNCHANGED <<g_i2c_handles, i2c_regs, mem, i2c_xfer, gic_vars>>
    ELSE LET irq_num == I2cIrqNum(instance)
             config  == Configs[cfg]
         IN  /\ i2c_regs' = [i2c_regs EXCEPT ![instance] = I2cInitRegs(@, config)]
             /\ IF config.use_interrupts
                THEN /\ gic_priority' =
                           gic_set_priority(gic_priority, irq_num, I2C_IRQ_PRIORITY).prio
                     /\ gic_enabled' = gic_enable_irq(gic_enabled, irq_num).en
                ELSE UNCHANGED gic_vars
             /\ g_i2c_handles' = [g_i2c_handles EXCEPT
                                    ![instance].initialized = TRUE,
                                    ![instance].state = I2C_STATE_IDLE]
             /\ i2c_last' = [op |-> "init", inst |-> instance,
                             ret |-> STATUS_OK, ev |-> <<>>]
             /\ UNCHANGED <<mem, i2c_xfer>>

\* i2c_deinit(instance)
i2c_deinit(instance) ==
    IF instance >= I2C_INSTANCE_MAX
    THEN /\ i2c_last' = [op |-> "deinit", inst |-> instance,
                         ret |-> STATUS_INVALID_PARAM, ev |-> <<>>]
         /\ UNCHANGED <<g_i2c_handles, i2c_regs, mem, i2c_xfer, gic_vars>>
    ELSE /\ i2c_regs' = [i2c_regs EXCEPT ![instance].CR1 = @ \ {I2C_CR1_PE}]
         /\ gic_enabled' = gic_disable_irq(gic_enabled, I2cIrqNum(instance)).en
         /\ g_i2c_handles' = [g_i2c_handles EXCEPT
                                ![instance].initialized = FALSE,
                                ![instance].state = I2C_STATE_IDLE]
         /\ i2c_last' = [op |-> "deinit", inst |-> instance,
                         ret |-> STATUS_OK, ev |-> <<>>]
         /\ UNCHANGED <<mem, i2c_xfer, gic_priority>>

\* the loop count of a wait, timeout * TIMEOUT_LOOP_COUNT in u32_t, as the
\* pair of its 16-bit halves
I2cWaitCount(timeout_ms) == Mul32(timeout_ms, TIMEOUT_LOOP_COUNT)

\* one wait whose flag never shows: the timeout argument and the number
\* of polls made before the loop gave up
I2cWaitRecord(timeout_ms) ==
    [timeout_ms |-> timeout_ms, polls |-> I2cWaitCount(timeout_ms)]

\* The wait loops of the blocking calls, one evaluation of the loop
\* condition at a time.  A wait is named by the flag it awaits.
\* the wait loops of a call that passed its argument checks, in order
BlkWaits(op, len) ==
    IF op = "i2c_write_blocking"
    THEN <<"BUSY", "SB", "ADDR">> \o [k \in 1 .. len |-> "TXE"] \o <<"BTF">>
    ELSE IF op = "i2c_read_blocking"
    THEN <<"SB", "ADDR">> \o [k \in 1 .. len |-> "RXNE"]
    ELSE IF op = "ble_send_data" THEN <<"TX_BUSY">>
    ELSE <<"READY">>

\* the waits written as while (condition && counter > 0) counter--
BlkInlineWaits == {"BUSY", "TX_BUSY", "READY"}

\* the counter a wait starts from
BlkBudget(kind, timeout_ms) ==
    IF kind = "READY" THEN BLE_READY_BUDGET
    ELSE IF kind = "TX_BUSY" THEN BLE_TX_BUDGET
    ELSE I2cWaitCount(timeout_ms).hi * U16 + I2cWaitCount(timeout_ms).lo

\* a decrement that never reaches zero
BlkDecrement_Refill(counter) == IF counter = 1 THEN 2 ELSE counter - 1

\* counter-- / wait_count-- / timeout--
BlkDecrement(counter) == counter - 1

\* one evaluation of a wait's loop condition and, if it holds, of the loop
\* body; met is whether the hardware shows the awaited condition when the
\* flag is read.  exit: the loop is left; ok: the call goes on after it;
\* seen: the flag was read with the awaited condition showing.
\* An inline wait reads the flag first and is judged afterwards by its
\* counter being zero; i2c_wait_flag tests the counter first and reads the
\* flag only while it is positive.
BlkWaitStep(kind, counter, met) ==
    IF kind \in BlkInlineWaits
    THEN IF ~met /\ counter > 0
         THEN [exit |-> FALSE, counter |-> BlkDecrement(counter),
               ok |-> FALSE, seen |-> FALSE]
         ELSE [exit |-> TRUE, counter |-> counter, ok |-> counter # 0,
               seen |-> met]
    ELSE IF counter = 0
         THEN [exit |-> TRUE, counter |-> counter, ok |-> FALSE, seen |-> FALSE]
         ELSE IF met
         THEN [exit |-> TRUE, counter |-> counter, ok |-> TRUE, seen |-> TRUE]
         ELSE [exit |-> FALSE, counter |-> BlkDecrement(counter),
               ok |-> FALSE, seen |-> FALSE]

\* what a call returns when a wait fails
BlkFailure(kind) == IF kind = "BUSY" THEN STATUS_BUSY ELSE STATUS_TIMEOUT

\* no blocking call under way
BlkIdle ==
    [pc |-> "idle", op |-> "none", len |-> 0, timeout_ms |-> 0, stage |-> 0,
     counter |-> 0, ret |-> STATUS_OK, seen |-> FALSE]

\* entry of a blocking call, up to the first evaluation of its first wait
BlkEnter(op, len, timeout_ms) ==
    [pc |-> "wait", op |-> op, len |-> len, timeout_ms |-> timeout_ms,
     stage |-> 1, counter |-> BlkBudget(BlkWaits(op, len)[1], timeout_ms),
     ret |-> STATUS_OK, seen |-> FALSE]

\* the call after one more evaluation of the wait it is in; the counter is
\* a local of the wait and is gone when the call has returned
BlkStep(b, met) ==
    LET waits == BlkWaits(b.op, b.len)
        kind  == waits[b.stage]
        r     == BlkWaitStep(kind, b.counter, met)
    IN  IF ~r.exit THEN [b EXCEPT !.counter = r.counter]
        ELSE IF ~r.ok
        THEN [b EXCEPT !.pc = "done", !.ret = BlkFailure(kind),
                       !.counter = 0, !.seen = r.seen]
        ELSE IF b.stage = Len(waits)
        THEN [b EXCEPT !.pc = "done", !.ret = STATUS_OK,
                       !.counter = 0, !.seen = r.seen]
        ELSE [b EXCEPT !.stage = b.stage + 1,
                       !.counter = BlkBudget(waits[b.stage + 1], b.timeout_ms)]

\* i2c_wait_flag: firstAt is the first poll at which the flag has the
\* expected value; the loop polls while counter > 0
i2c_wait_flag(timeout, firstAt) ==
    LET counter == I2cWaitCount(timeout)
    IN  IF PollBefore(firstAt, counter) THEN STATUS_OK ELSE STATUS_TIMEOUT

\* i2c_send_address: [ret, ev]
i2c_send_address(addr, dir, timeout, hSB, hADDR) ==
    LET r1 == i2c_wait_flag(timeout, hSB)
        r2 == i2c_wait_flag(timeout, hADDR)
    IN  IF r1 # STATUS_OK
        THEN [ret |-> r1, ev |-> <<>>]
        ELSE [ret |-> r2,
              ev  |-> <<Ev("DR", AddrByte(addr, dir), 0)>> \o
                      (IF r2 = STATUS_OK
                       THEN <<Ev("SR1", 0, 0), Ev("SR2", 0, 0)>> ELSE <<>>)]

\* the transmit loop of i2c_write_blocking from byte i on: [ret, ev];
\* hw[i + 1] is the hardware's behaviour during the TXE wait of byte i
RECURSIVE WriteBlockingData(_, _, _, _, _, _)
WriteBlockingData(i, len, data, timeout, hw, m) ==
    IF i >= len THEN [ret |-> STATUS_OK, ev |-> <<>>]
    ELSE LET r == i2c_wait_flag(timeout, hw[i + 1])
         IN  IF r # STATUS_OK THEN [ret |-> r, ev |-> <<>>]
             ELSE LET rest == WriteBlockingData(i + 1, len, data, timeout, hw, m)
                  IN  [ret |-> rest.ret,
                       ev  |-> <<Ev("TXRD", data, i), Ev("DR", m[data][i], 0)>>
                               \o rest.ev]

\* the part of i2c_write_blocking after validation: [ret, ev].
\* hw: behaviour during the waits, in order bus-free, SB, ADDR, TXE of
\* each byte, BTF
WriteBlockingBody(dev_addr, data, len, timeout_ms, hw, m) ==
    LET wait_count == Mul32(timeout_ms, TIMEOUT_LOOP_COUNT)
        \* the loop leaves wait_count > 0 iff the bus was seen free at a
        \* poll before the count ran out
        bus_free == PollBefore(hw[1], wait_count)
        sa == i2c_send_address(dev_addr, I2C_DIR_WRITE, timeout_ms, hw[2], hw[3])
        tx == WriteBlockingData(0, len, data, timeout_ms,
                                SubSeq(hw, 4, 3 + len), m)
        btf == i2c_wait_flag(timeout_ms, hw[4 + len])
    IN  IF ~bus_free THEN [ret |-> STATUS_BUSY, ev |-> <<>>]
        ELSE IF sa.ret # STATUS_OK
        THEN [ret |-> sa.ret,
              ev  |-> <<Ev("START", 0, 0)>> \o sa.ev \o <<Ev("STOP", 0, 0)>>]
        ELSE IF tx.ret # STATUS_OK
        THEN [ret |-> tx.ret,
              ev  |-> <<Ev("START", 0, 0)>> \o sa.ev \o tx.ev
                      \o <<Ev("STOP", 0, 0)>>]
        ELSE [ret |-> btf,
              ev  |-> <<Ev("START", 0, 0)>> \o sa.ev \o tx.ev
                      \o <<Ev("STOP", 0, 0)>>]

\* i2c_write_blocking(instance, dev_addr, data, len, timeout_ms)
i2c_write_blocking(instance, dev_addr, data, len, timeout_ms, hw) ==
    LET reject(r) ==
            /\ i2c_last' = [op |-> "write_blocking", inst |-> instance,
                            ret |-> r, ev |-> <<>>]
            /\ UNCHANGED <<g_i2c_handles, i2c_regs, mem, i2c_xfer, gic_vars>>
    IN  IF data = NULL THEN reject(STATUS_INVALID_PARAM)
        ELSE IF instance >= I2C_INSTANCE_MAX THEN reject(STATUS_INVALID_PARAM)
        ELSE IF ~g_i2c_handles[instance].initialized THEN reject(STATUS_NOT_READY)
        ELSE IF len = 0 THEN reject(STATUS_INVALID_PARAM)
        ELSE LET b == WriteBlockingBody(dev_addr, data, len, timeout_ms, hw, mem)
             IN  /\ g_i2c_handles' = [g_i2c_handles EXCEPT ![instance].state =
                        IF b.ret = STATUS_OK THEN I2C_STATE_IDLE
                                             ELSE I2C_STATE_ERROR]
                 /\ i2c_last' = [op |-> "write_blocking", inst |-> instance,
                                 ret |-> b.ret, ev |-> b.ev]
                 /\ UNCHANGED <<i2c_regs, mem, i2c_xfer, gic_vars>>

\* the receive loop of i2c_read_blocking from byte i on: [ret, ev, m];
\* hw[i + 1] is the hardware's behaviour during the RXNE wait of byte i
RECURSIVE ReadBlockingData(_, _, _, _, _, _, _)
ReadBlockingData(i, len, data, timeout, hw, dr, m) ==
    IF i >= len THEN [ret |-> STATUS_OK, ev |-> <<>>, m |-> m]
    ELSE LET last == IF i = Dec32(len)
                     THEN <<Ev("ACK", 0, 0), Ev("STOP", 0, 0)>> ELSE <<>>
             r == i2c_wait_flag(timeout, hw[i + 1])
         IN  IF r # STATUS_OK THEN [ret |-> r, ev |-> last, m |-> m]
             ELSE LET rest == ReadBlockingData(i + 1, len, data, timeout, hw, dr,
                                  [m EXCEPT ![data][i] = dr])
                  IN  [ret |-> rest.ret,
                       ev  |-> last \o <<Ev("RDDR", dr, 0), Ev("RXWR", data, i)>>
                               \o rest.ev,
                       m   |-> rest.m]

\* the part of i2c_read_blocking after validation: [ret, ev, m].
\* hw: behaviour during the waits, in order SB, ADDR, RXNE of each byte
ReadBlockingBody(dev_addr, data, len, timeout_ms, hw, dr, m) ==
    LET sa == i2c_send_address(dev_addr, I2C_DIR_READ, timeout_ms, hw[1], hw[2])
        rx == ReadBlockingData(0, len, data, timeout_ms,
                               SubSeq(hw, 3, 2 + len), dr, m)
        pre == <<Ev("ACK", 1, 0), Ev("START", 0, 0)>>
    IN  IF sa.ret # STATUS_OK
        THEN [ret |-> sa.ret, ev |-> pre \o sa.ev \o <<Ev("STOP", 0, 0)>>, m |-> m]
        ELSE [ret |-> rx.ret, ev |-> pre \o sa.ev \o rx.ev, m |-> rx.m]

\* the ACK bit of CR1 after the events of a log, in order
RECURSIVE AckAfter(_, _)
AckAfter(cr1, ev) ==
    IF ev = <<>> THEN cr1
    ELSE AckAfter(IF Head(ev).k # "ACK" THEN cr1
                  ELSE IF Head(ev).a = 1 THEN cr1 \cup {I2C_CR1_ACK}
                  ELSE cr1 \ {I2C_CR1_ACK},
                  Tail(ev))

\* i2c_read_blocking(instance, dev_addr, data, len, timeout_ms)
i2c_read_blocking(instance, dev_addr, data, len, timeout_ms, hw, dr) ==
    LET reject(r) ==
            /\ i2c_last' = [op |-> "read_blocking", inst |-> instance,
                            ret |-> r, ev |-> <<>>]
            /\ UNCHANGED <<g_i2c_handles, i2c_regs, mem, i2c_xfer, gic_vars>>
    IN  IF data = NULL THEN reject(STATUS_INVALID_PARAM)
        ELSE IF instance >= I2C_INSTANCE_MAX THEN reject(STATUS_INVALID_PARAM)
        ELSE IF ~g_i2c_handles[instance].initialized THEN reject(STATUS_NOT_READY)
        ELSE IF len = 0 THEN reject(STATUS_INVALID_PARAM)
        ELSE LET b == ReadBlockingBody(dev_addr, data, len, timeout_ms, hw, dr, mem)
             IN  /\ g_i2c_handles' = [g_i2c_handles EXCEPT ![instance].state =
                        IF b.ret = STATUS_OK THEN I2C_STATE_IDLE
                                             ELSE I2C_STATE_ERROR]
                 /\ i2c_regs' = [i2c_regs EXCEPT ![instance].CR1 = AckAfter(@, b.ev)]
                 /\ mem' = b.m
                 /\ i2c_last' = [op |-> "read_blocking", inst |-> instance,
                                 ret |-> b.ret, ev |-> b.ev]
                 /\ UNCHANGED <<i2c_xfer, gic_vars>>

\* a state test that takes only a transmission under way for busy
I2cBusy_OnlyTx(handle) == handle.state = I2C_STATE_BUSY_TX
\* the state test of the async requests: only Idle takes a request
I2cBusy(handle) == handle.state # I2C_STATE_IDLE

\* i2c_write_async(instance, dev_addr, data, len, callback)
i2c_write_async(instance, dev_addr, data, len, callback) ==
    LET reject(r) ==
            /\ i2c_last' = [op |-> "write_async", inst |-> instance,
                            ret |-> r, ev |-> <<>>]
            /\ UNCHANGED <<g_i2c_handles, i2c_regs, mem, i2c_xfer, gic_vars>>
    IN  IF data = NULL \/ callback = NULL THEN reject(STATUS_INVALID_PARAM)
        ELSE IF instance >= I2C_INSTANCE_MAX THEN reject(STATUS_INVALID_PARAM)
        ELSE IF ~g_i2c_handles[instance].initialized THEN reject(STATUS_NOT_READY)
        ELSE IF I2cBusy(g_i2c_handles[instance])
        THEN reject(STATUS_BUSY)
        ELSE /\ g_i2c_handles' = [g_i2c_handles EXCEPT
                    ![instance].tx_buffer = data,
                    ![instance].buffer_len = len,
                    ![instance].buffer_idx = 0,
                    ![instance].dev_address = dev_addr,
                    ![instance].callback = callback,
                    ![instance].state = I2C_STATE_BUSY_TX]
             /\ i2c_xfer' = [i2c_xfer EXCEPT ![instance] = InitXfer]
             /\ i2c_last' = [op |-> "write_async", inst |-> instance,
                             ret |-> STATUS_OK, ev |-> <<Ev("START", 0, 0)>>]
             /\ UNCHANGED <<i2c_regs, mem, gic_vars>>

\* i2c_read_async(instance, dev_addr, data, len, callback)
i2c_read_async(instance, dev_addr, data, len, callback) ==
    LET reject(r) ==
            /\ i2c_last' = [op |-> "read_async", inst |-> instance,
                            ret |-> r, ev |-> <<>>]
            /\ UNCHANGED <<g_i2c_handles, i2c_regs, mem, i2c_xfer, gic_vars>>
    IN  IF data = NULL \/ callback = NULL THEN reject(STATUS_INVALID_PARAM)
        ELSE IF instance >= I2C_INSTANCE_MAX THEN reject(STATUS_INVALID_PARAM)
        ELSE IF ~g_i2c_handles[instance].initialized THEN reject(STATUS_NOT_READY)
        ELSE IF I2cBusy(g_i2c_handles[instance])
        THEN reject(STATUS_BUSY)
        ELSE /\ g_i2c_handles' = [g_i2c_handles EXCEPT
                    ![instance].rx_buffer = data,
                    ![instance].buffer_len = len,
                    ![instance].buffer_idx = 0,
                    ![instance].dev_address = dev_addr,
                    ![instance].callback = callback,
                    ![instance].state = I2C_STATE_BUSY_RX]
             /\ i2c_regs' = [i2c_regs EXCEPT ![instance].CR1 = @ \cup {I2C_CR1_ACK}]
             /\ i2c_xfer' = [i2c_xfer EXCEPT ![instance] = InitXfer]
             /\ i2c_last' = [op |-> "read_async", inst |-> instance,
                             ret |-> STATUS_OK,
                             ev |-> <<Ev("ACK", 1, 0), Ev("START", 0, 0)>>]
             /\ UNCHANGED <<mem, gic_vars>>

\* the callback invocation of the handler: nothing for a null callback
I2cCallback(handle, result) ==
    IF handle.callback # NULL THEN <<Ev("CB", handle.callback, result)>> ELSE <<>>

\* an acknowledge-failure branch that stops the bus and reports nothing
IrqAckFailure_NoError(handle, m) ==
    [h |-> handle, m |-> m, ev |-> <<Ev("AFCLR", 0, 0), Ev("STOP", 0, 0)>>]
\* the acknowledge-failure branch of i2c_irq_handler: [h, ev, m]
IrqAckFailure(handle, m) ==
    [h |-> [handle EXCEPT !.state = I2C_STATE_ERROR], m |-> m,
     ev |-> <<Ev("AFCLR", 0, 0), Ev("STOP", 0, 0)>> \o
            I2cCallback(handle, STATUS_ERROR)]

\* a handler without the arm that finishes a write
I2cWriteFinished_Never(sr1) == FALSE

\* else if (BIT_CHECK(sr1, I2C_SR1_BTF)): the last byte has left the shift
\* register
I2cWriteFinished(sr1) == BIT_CHECK(sr1, I2C_SR1_BTF)

\* a handler that tests acknowledge failure before the transmit and
\* receive branches
IrqEntry_AckFailureThird(handle, sr1, dr, m) ==
    IF BIT_CHECK(sr1, I2C_SR1_SB)
    THEN LET dir == IF handle.state = I2C_STATE_BUSY_TX THEN 0 ELSE 1
         IN  [h |-> handle, m |-> m,
              ev |-> <<Ev("DR", AddrByte(handle.dev_address, dir), 0)>>]
    ELSE IF BIT_CHECK(sr1, I2C_SR1_ADDR)
    THEN [h |-> handle, m |-> m,
          ev |-> <<Ev("SR2", 0, 0)>> \o
                 (IF handle.state = I2C_STATE_BUSY_RX /\ handle.buffer_len = 1
                  THEN <<Ev("ACK", 0, 0)>> ELSE <<>>)]
    ELSE IF BIT_CHECK(sr1, I2C_SR1_AF)
    THEN IrqAckFailure(handle, m)
    ELSE IF BIT_CHECK(sr1, I2C_SR1_TXE) /\ handle.state = I2C_STATE_BUSY_TX
    THEN IF handle.buffer_idx < handle.buffer_len
         THEN [h |-> [handle EXCEPT !.buffer_idx = Inc32(@)], m |-> m,
               ev |-> <<Ev("TXRD", handle.tx_buffer, handle.buffer_idx),
                        Ev("DR", m[handle.tx_buffer][handle.buffer_idx], 0)>>]
         ELSE IF BIT_CHECK(sr1, I2C_SR1_BTF)
         THEN [h |-> [handle EXCEPT !.state = I2C_STATE_IDLE], m |-> m,
               ev |-> <<Ev("STOP", 0, 0)>> \o I2cCallback(handle, STATUS_OK)]
         ELSE [h |-> handle, m |-> m, ev |-> <<>>]
    ELSE IF BIT_CHECK(sr1, I2C_SR1_RXNE) /\ handle.state = I2C_STATE_BUSY_RX
    THEN LET idx  == Inc32(handle.buffer_idx)
             last == idx = Dec32(handle.buffer_len)
             full == Geq32(idx, handle.buffer_len)
         IN  [h |-> [handle EXCEPT !.buffer_idx = idx,
                                   !.state = IF full THEN I2C_STATE_IDLE ELSE @],
              m |-> [m EXCEPT ![handle.rx_buffer][handle.buffer_idx] = dr],
              ev |-> <<Ev("RDDR", dr, 0),
                       Ev("RXWR", handle.rx_buffer, handle.buffer_idx)>> \o
                     (IF last THEN <<Ev("ACK", 0, 0), Ev("STOP", 0, 0)>> ELSE <<>>) \o
                     (IF full THEN I2cCallback(handle, STATUS_OK) ELSE <<>>)]
    ELSE [h |-> handle, m |-> m, ev |-> <<>>]

\* one entry of i2c_irq_handler for a handle: [h, ev, m].  sr1 is the
\* status register as read at entry, dr the data register if it is read
IrqEntry(handle, sr1, dr, m) ==
    IF BIT_CHECK(sr1, I2C_SR1_SB)
    THEN LET dir == IF handle.state = I2C_STATE_BUSY_TX THEN 0 ELSE 1
         IN  [h |-> handle, m |-> m,
              ev |-> <<Ev("DR", AddrByte(handle.dev_address, dir), 0)>>]
    ELSE IF BIT_CHECK(sr1, I2C_SR1_ADDR)
    THEN [h |-> handle, m |-> m,
          ev |-> <<Ev("SR2", 0, 0)>> \o
                 (IF handle.state = I2C_STATE_BUSY_RX /\ handle.buffer_len = 1
                  THEN <<Ev("ACK", 0, 0)>> ELSE <<>>)]
    ELSE IF BIT_CHECK(sr1, I2C_SR1_TXE) /\ handle.state = I2C_STATE_BUSY_TX
    THEN IF handle.buffer_idx < handle.buffer_len
         THEN [h |-> [handle EXCEPT !.buffer_idx = Inc32(@)], m |-> m,
               ev |-> <<Ev("TXRD", handle.tx_buffer, handle.buffer_idx),
                        Ev("DR", m[handle.tx_buffer][handle.buffer_idx], 0)>>]
         ELSE IF I2cWriteFinished(sr1)
         THEN [h |-> [handle EXCEPT !.state = I2C_STATE_IDLE], m |-> m,
               ev |-> <<Ev("STOP", 0, 0)>> \o I2cCallback(handle, STATUS_OK)]
         ELSE [h |-> handle, m |-> m, ev |-> <<>>]
    ELSE IF BIT_CHECK(sr1, I2C_SR1_RXNE) /\ handle.state = I2C_STATE_BUSY_RX
    THEN LET idx  == Inc32(handle.buffer_idx)
             last == idx = Dec32(handle.buffer_len)
             full == Geq32(idx, handle.buffer_len)
         IN  [h |-> [handle EXCEPT !.buffer_idx = idx,
                                   !.state = IF full THEN I2C_STATE_IDLE ELSE @],
              m |-> [m EXCEPT ![handle.rx_buffer][handle.buffer_idx] = dr],
              ev |-> <<Ev("RDDR", dr, 0),
                       Ev("RXWR", handle.rx_buffer, handle.buffer_idx)>> \o
                     (IF last THEN <<Ev("ACK", 0, 0), Ev("STOP", 0, 0)>> ELSE <<>>) \o
                     (IF full THEN I2cCallback(handle, STATUS_OK) ELSE <<>>)]
    ELSE IF BIT_CHECK(sr1, I2C_SR1_AF)
    THEN IrqAckFailure(handle, m)
    ELSE [h |-> handle, m |-> m, ev |-> <<>>]

\* a handler that stores the Idle state once more when the callback is back
IrqAfterCallback_StoresState(handle) == [handle EXCEPT !.state = I2C_STATE_IDLE]

\* what the handler does to the handle once handle->callback(instance,
\* result) has returned: in each of the three completion arms the call is
\* the last statement
IrqAfterCallback(handle) == handle

\* no completion callback under way
I2cNoCallback ==
    [pc |-> "main", inst |-> 0, result |-> STATUS_OK, started |-> FALSE]

\* i2c_irq_handler(instance); count says whether the history counters of
\* i2c_xfer are kept
i2c_irq_handler(instance, sr1, dr, count) ==
    IF instance >= I2C_INSTANCE_MAX
    THEN /\ i2c_last' = [op |-> "irq", inst |-> instance, ret |-> STATUS_OK,
                         ev |-> <<>>]
         /\ UNCHANGED <<g_i2c_handles, i2c_regs, mem, i2c_xfer, gic_vars>>
    ELSE LET e == IrqEntry(g_i2c_handles[instance], sr1, dr, mem)
         IN  /\ g_i2c_handles' = [g_i2c_handles EXCEPT ![instance] = e.h]
             /\ mem' = e.m
             /\ i2c_regs' = [i2c_regs EXCEPT ![instance].CR1 = AckAfter(@, e.ev)]
             /\ IF count
                THEN i2c_xfer' = [i2c_xfer EXCEPT ![instance] =
                       [stops  |-> Bump(@.stops, CountEv(e.ev, "STOP")),
                        ackclr |-> Bump(@.ackclr,
                                        Len(SelectSeq(e.ev,
                                            LAMBDA x : x.k = "ACK" /\ x.a = 0))),
                        cbs    |-> Bump(@.cbs, CountEv(e.ev, "CB"))]]
                ELSE UNCHANGED i2c_xfer
             /\ i2c_last' = [op |-> "irq", inst |-> instance, ret |-> STATUS_OK,
                             ev |-> e.ev, st |-> g_i2c_handles[instance].state]
             /\ UNCHANGED gic_vars

vars == <<g_i2c_handles, i2c_regs, mem, gic_enabled, gic_priority,
          i2c_last, i2c_xfer, focus, g_ble_handle, ble_regs, ble_last,
          ble_fifo, ble_pc, irq_last, i2c_round, gic_last, i2c_wait, irq_sr1, blk, i2c_cb>>

(***************************************************************************)
(* BLE link engine (ble_driver.c)                                          *)
(***************************************************************************)
\* ble_mac_addr_t of zeroes
ZeroAddr == <<0, 0, 0, 0, 0, 0>>

\* a ble_event_t: data holds the first data_len bytes of the payload array
BleEvent(type, peer_addr, data) ==
    [type |-> type, peer_addr |-> peer_addr, data |-> data, data_len |-> Len(data)]

\* ble_config_t values; BleConfigs[c] is what config pointer c points to
BleZeroConfig ==
    [adv_interval_ms |-> 0, conn_interval_min_ms |-> 0,
     conn_interval_max_ms |-> 0, tx_power_dbm |-> 0, use_interrupts |-> FALSE]
BleConfigs ==
    << [adv_interval_ms |-> 100, conn_interval_min_ms |-> 20,
        conn_interval_max_ms |-> 40, tx_power_dbm |-> 0, use_interrupts |-> TRUE] >>

\* the burned-in address registers MAC_L and MAC_H, by bytes, lowest first
MacRegs == [MAC_L |-> <<17, 34, 51, 68>>, MAC_H |-> <<85, 102, 0, 0>>]

QueueSlots == 0 .. (BLE_EVENT_QUEUE_SIZE - 1)

\* g_ble_handle as statically initialised
InitBleHandle ==
    [ state          |-> BLE_STATE_OFF,
      callback       |-> NULL,
      config         |-> BleZeroConfig,
      local_addr     |-> ZeroAddr,
      peer_addr      |-> ZeroAddr,
      event_queue    |-> [k \in QueueSlots |-> BleEvent(BLE_EVT_NONE, ZeroAddr, <<>>)],
      evt_queue_head |-> 0,
      evt_queue_tail |-> 0,
      initialized    |-> FALSE,
      rx_buffer      |-> <<>>,
      rx_len         |-> 0,
      rx_pending     |-> FALSE,
      tx_complete    |-> FALSE ]

InitBleRegs == [CTRL |-> {}, INT_EN |-> {}, TX_POWER |-> 0, ADV_CTRL |-> 0]

\* an enqueue that overwrites the oldest event when no slot is free
ble_enqueue_event_Overwrite(h, event) ==
    LET next_head == (h.evt_queue_head + 1) % BLE_EVENT_QUEUE_SIZE
    IN  [ret |-> IF next_head = h.evt_queue_tail THEN STATUS_ERROR ELSE STATUS_OK,
         h   |-> [h EXCEPT !.event_queue[h.evt_queue_head] = event,
                           !.evt_queue_head = next_head,
                           !.evt_queue_tail =
                               IF next_head = h.evt_queue_tail
                               THEN (@ + 1) % BLE_EVENT_QUEUE_SIZE ELSE @]]
\* ble_enqueue_event on a handle: [ret, h]
ble_enqueue_event(h, event) ==
    LET next_head == (h.evt_queue_head + 1) % BLE_EVENT_QUEUE_SIZE
    IN  IF next_head = h.evt_queue_tail
        THEN [ret |-> STATUS_ERROR, h |-> h]
        ELSE [ret |-> STATUS_OK,
              h   |-> [h EXCEPT !.event_queue[h.evt_queue_head] = event,
                                !.evt_queue_head = next_head]]

\* a dequeue that hands out the newest event of the queue
ble_dequeue_event_Newest(h) ==
    IF h.evt_queue_tail # h.evt_queue_head
    THEN [has_event |-> TRUE,
          event |-> h.event_queue[(h.evt_queue_head + BLE_EVENT_QUEUE_SIZE - 1)
                                     % BLE_EVENT_QUEUE_SIZE],
          h |-> [h EXCEPT !.evt_queue_tail =
                              (h.evt_queue_tail + 1) % BLE_EVENT_QUEUE_SIZE]]
    ELSE [has_event |-> FALSE,
          event |-> BleEvent(BLE_EVT_NONE, ZeroAddr, <<>>),
          h |-> h]
\* ble_dequeue_event on a handle: [has_event, event, h]
ble_dequeue_event(h) ==
    IF h.evt_queue_tail # h.evt_queue_head
    THEN [has_event |-> TRUE,
          event |-> h.event_queue[h.evt_queue_tail],
          h |-> [h EXCEPT !.evt_queue_tail =
                              (h.evt_queue_tail + 1) % BLE_EVENT_QUEUE_SIZE]]
    ELSE [has_event |-> FALSE,
          event |-> BleEvent(BLE_EVT_NONE, ZeroAddr, <<>>),
          h |-> h]

\* the part of the queue an enqueue or dequeue can change
QueueOf(h) ==
    [head |-> h.evt_queue_head, tail |-> h.evt_queue_tail, slots |-> h.event_queue]

\* one logged call of ble_enqueue_event: the event, the queue before and
\* after, the return value
EnqRecord(h, event) ==
    LET r == ble_enqueue_event(h, event)
    IN  [event |-> event, before |-> QueueOf(h), after |-> QueueOf(r.h),
         ret |-> r.ret]

\* one logged call of ble_dequeue_event: the queue before and after, what
\* it returned, the event it handed out, and whether the handle is as
\* before apart from the tail index
DeqRecord(h) ==
    LET d == ble_dequeue_event(h)
    IN  [before |-> QueueOf(h), after |-> QueueOf(d.h),
         has_event |-> d.has_event, event |-> d.event,
         tail_only |-> d.h = [h EXCEPT !.evt_queue_tail = d.h.evt_queue_tail]]

BleLast(op, ret, enq, cb) == [op |-> op, ret |-> ret, enq |-> enq, cb |-> cb]

\* a wait for the controller that also accepts a ready flag seen at the
\* read made once the count has run out
BleReadyInTime_Inclusive(ready) == ready # Never /\ ready <= BLE_READY_BUDGET

\* the wait for ready of ble_init: the loop leaves timeout > 0 iff ready
\* was seen at a poll before the count ran out
BleReadyInTime(ready) == ready # Never /\ ready < BLE_READY_BUDGET

\* ble_init(config, callback): cfg the config pointer, ready the first
\* poll at which the hardware reports ready
ble_init(cfg, callback, ready) ==
    IF cfg = NULL \/ callback = NULL
    THEN /\ ble_last' = BleLast("init", STATUS_INVALID_PARAM, <<>>, <<>>)
         /\ UNCHANGED <<g_ble_handle, ble_regs, gic_vars>>
    ELSE LET config == BleConfigs[cfg]
             \* the reset pulse, written before the wait
             ctrl0 == (ble_regs.CTRL \cup {BLE_CTRL_RESET}) \ {BLE_CTRL_RESET}
             in_time == BleReadyInTime(ready)
         IN  IF ~in_time
             THEN /\ ble_regs' = [ble_regs EXCEPT !.CTRL = ctrl0]
                  /\ ble_last' = BleLast("init", STATUS_TIMEOUT, <<>>, <<>>)
                  /\ UNCHANGED <<g_ble_handle, gic_vars>>
             ELSE /\ ble_regs' =
                       [CTRL     |-> ctrl0 \cup {BLE_CTRL_ENABLE},
                        INT_EN   |-> IF config.use_interrupts
                                     THEN {BLE_INT_CONNECTED, BLE_INT_DISCONNECTED,
                                           BLE_INT_RX_DONE, BLE_INT_TX_DONE,
                                           BLE_INT_ERROR}
                                     ELSE ble_regs.INT_EN,
                        TX_POWER |-> config.tx_power_dbm + 20,
                        ADV_CTRL |-> config.adv_interval_ms % U16]
                  /\ IF config.use_interrupts
                     THEN /\ gic_priority' =
                               gic_set_priority(gic_priority, IRQ_BLE,
                                                BLE_IRQ_PRIORITY).prio
                          /\ gic_enabled' = gic_enable_irq(gic_enabled, IRQ_BLE).en
                     ELSE UNCHANGED gic_vars
                  /\ g_ble_handle' = [g_ble_handle EXCEPT
                        !.config = config,
                        !.callback = callback,
                        !.local_addr = <<MacRegs.MAC_L[1], MacRegs.MAC_L[2],
                                         MacRegs.MAC_L[3], MacRegs.MAC_L[4],
                                         MacRegs.MAC_H[1], MacRegs.MAC_H[2]>>,
                        !.state = BLE_STATE_IDLE,
                        !.initialized = TRUE,
                        !.evt_queue_head = 0,
                        !.evt_queue_tail = 0]
                  /\ ble_last' = BleLast("init", STATUS_OK, <<>>, <<>>)

\* ble_deinit()
ble_deinit ==
    IF ~g_ble_handle.initialized
    THEN /\ ble_last' = BleLast("deinit", STATUS_NOT_READY, <<>>, <<>>)
         /\ UNCHANGED <<g_ble_handle, ble_regs, gic_vars>>
    ELSE /\ ble_regs' = [ble_regs EXCEPT !.INT_EN = {},
                                         !.CTRL = @ \ {BLE_CTRL_ENABLE}]
         /\ gic_enabled' = gic_disable_irq(gic_enabled, IRQ_BLE).en
         /\ g_ble_handle' = [g_ble_handle EXCEPT !.state = BLE_STATE_OFF,
                                                 !.initialized = FALSE]
         /\ ble_last' = BleLast("deinit", STATUS_OK, <<>>, <<>>)
         /\ UNCHANGED gic_priority

\* a ble_start_advertising that goes ahead from Idle only
ble_start_advertising_IdleOnly ==
    IF ~g_ble_handle.initialized
    THEN /\ ble_last' = BleLast("start_advertising", STATUS_NOT_READY, <<>>, <<>>)
         /\ UNCHANGED <<g_ble_handle, ble_regs, gic_vars>>
    ELSE IF g_ble_handle.state # BLE_STATE_IDLE
    THEN /\ ble_last' = BleLast("start_advertising", STATUS_BUSY, <<>>, <<>>)
         /\ UNCHANGED <<g_ble_handle, ble_regs, gic_vars>>
    ELSE LET h1  == [g_ble_handle EXCEPT !.state = BLE_STATE_ADVERTISING]
             evt == BleEvent(BLE_EVT_ADV_STARTED, ZeroAddr, <<>>)
         IN  /\ ble_regs' = [ble_regs EXCEPT !.CTRL = @ \cup {BLE_CTRL_ADV_START}]
             /\ g_ble_handle' = ble_enqueue_event(h1, evt).h
             /\ ble_last' = BleLast("start_advertising", STATUS_OK,
                                    <<EnqRecord(h1, evt)>>, <<>>)
             /\ UNCHANGED gic_vars

\* ble_start_advertising()
ble_start_advertising ==
    IF ~g_ble_handle.initialized
    THEN /\ ble_last' = BleLast("start_advertising", STATUS_NOT_READY, <<>>, <<>>)
         /\ UNCHANGED <<g_ble_handle, ble_regs, gic_vars>>
    ELSE IF g_ble_handle.state # BLE_STATE_IDLE
            /\ g_ble_handle.state # BLE_STATE_CONNECTED
    THEN /\ ble_last' = BleLast("start_advertising", STATUS_BUSY, <<>>, <<>>)
         /\ UNCHANGED <<g_ble_handle, ble_regs, gic_vars>>
    ELSE LET h1  == [g_ble_handle EXCEPT !.state = BLE_STATE_ADVERTISING]
             evt == BleEvent(BLE_EVT_ADV_STARTED, ZeroAddr, <<>>)
         IN  /\ ble_regs' = [ble_regs EXCEPT !.CTRL = @ \cup {BLE_CTRL_ADV_START}]
             /\ g_ble_handle' = ble_enqueue_event(h1, evt).h
             /\ ble_last' = BleLast("start_advertising", STATUS_OK,
                                    <<EnqRecord(h1, evt)>>, <<>>)
             /\ UNCHANGED gic_vars

\* ble_stop_advertising()
ble_stop_advertising ==
    IF ~g_ble_handle.initialized
    THEN /\ ble_last' = BleLast("stop_advertising", STATUS_NOT_READY, <<>>, <<>>)
         /\ UNCHANGED <<g_ble_handle, ble_regs, gic_vars>>
    ELSE IF g_ble_handle.state # BLE_STATE_ADVERTISING
    THEN /\ ble_last' = BleLast("stop_advertising", STATUS_INVALID_PARAM, <<>>, <<>>)
         /\ UNCHANGED <<g_ble_handle, ble_regs, gic_vars>>
    ELSE LET h1  == [g_ble_handle EXCEPT !.state = BLE_STATE_IDLE]
             evt == BleEvent(BLE_EVT_ADV_STOPPED, ZeroAddr, <<>>)
         IN  /\ ble_regs' = [ble_regs EXCEPT !.CTRL = @ \ {BLE_CTRL_ADV_START}]
             /\ g_ble_handle' = ble_enqueue_event(h1, evt).h
             /\ ble_last' = BleLast("stop_advertising", STATUS_OK,
                                    <<EnqRecord(h1, evt)>>, <<>>)
             /\ UNCHANGED gic_vars

\* the addresses callers pass to ble_connect; BleAddrs[a] is what address
\* pointer a points to
BleAddrs == << <<1, 2, 3, 4, 5, 6>> >>

\* a state test that lets ble_connect through while advertising
BleMayConnect_NotLinked(state) ==
    state # BLE_STATE_CONNECTING /\ state # BLE_STATE_CONNECTED

\* the states in which ble_connect goes ahead
BleMayConnect(state) ==
    ~(state # BLE_STATE_IDLE /\ state # BLE_STATE_SCANNING)

\* ble_connect(addr), addr the address pointer
ble_connect(addr) ==
    LET reject(r) ==
            /\ ble_last' = BleLast("connect", r, <<>>, <<>>)
            /\ UNCHANGED <<g_ble_handle, ble_regs, gic_vars>>
    IN  IF addr = NULL THEN reject(STATUS_INVALID_PARAM)
        ELSE IF ~g_ble_handle.initialized THEN reject(STATUS_NOT_READY)
        ELSE IF ~BleMayConnect(g_ble_handle.state) THEN reject(STATUS_BUSY)
        ELSE /\ g_ble_handle' = [g_ble_handle EXCEPT
                                   !.peer_addr = BleAddrs[addr],
                                   !.state = BLE_STATE_CONNECTING]
             /\ ble_regs' = [ble_regs EXCEPT !.CTRL = @ \cup {BLE_CTRL_CONN_INIT}]
             /\ ble_last' = BleLast("connect", STATUS_OK, <<>>, <<>>)
             /\ UNCHANGED gic_vars

\* ble_start_scan(duration_ms); the duration is not used
ble_start_scan ==
    IF ~g_ble_handle.initialized
    THEN /\ ble_last' = BleLast("start_scan", STATUS_NOT_READY, <<>>, <<>>)
         /\ UNCHANGED <<g_ble_handle, ble_regs, gic_vars>>
    ELSE IF g_ble_handle.state # BLE_STATE_IDLE
    THEN /\ ble_last' = BleLast("start_scan", STATUS_BUSY, <<>>, <<>>)
         /\ UNCHANGED <<g_ble_handle, ble_regs, gic_vars>>
    ELSE /\ ble_regs' = [ble_regs EXCEPT !.CTRL = @ \cup {BLE_CTRL_SCAN_START}]
         /\ g_ble_handle' = [g_ble_handle EXCEPT !.state = BLE_STATE_SCANNING]
         /\ ble_last' = BleLast("start_scan", STATUS_OK, <<>>, <<>>)
         /\ UNCHANGED gic_vars

\* ble_stop_scan()
ble_stop_scan ==
    IF ~g_ble_handle.initialized
    THEN /\ ble_last' = BleLast("stop_scan", STATUS_NOT_READY, <<>>, <<>>)
         /\ UNCHANGED <<g_ble_handle, ble_regs, gic_vars>>
    ELSE IF g_ble_handle.state # BLE_STATE_SCANNING
    THEN /\ ble_last' = BleLast("stop_scan", STATUS_INVALID_PARAM, <<>>, <<>>)
         /\ UNCHANGED <<g_ble_handle, ble_regs, gic_vars>>
    ELSE /\ ble_regs' = [ble_regs EXCEPT !.CTRL = @ \ {BLE_CTRL_SCAN_START}]
         /\ g_ble_handle' = [g_ble_handle EXCEPT !.state = BLE_STATE_IDLE]
         /\ ble_last' = BleLast("stop_scan", STATUS_OK, <<>>, <<>>)
         /\ UNCHANGED gic_vars

\* a ble_disconnect that also goes ahead while the link is being set up
ble_disconnect_FromConnecting ==
    IF ~g_ble_handle.initialized
    THEN /\ ble_last' = BleLast("disconnect", STATUS_NOT_READY, <<>>, <<>>)
         /\ UNCHANGED <<g_ble_handle, ble_regs, gic_vars>>
    ELSE IF g_ble_handle.state # BLE_STATE_CONNECTED
            /\ g_ble_handle.state # BLE_STATE_CONNECTING
    THEN /\ ble_last' = BleLast("disconnect", STATUS_INVALID_PARAM, <<>>, <<>>)
         /\ UNCHANGED <<g_ble_handle, ble_regs, gic_vars>>
    ELSE /\ ble_regs' = [ble_regs EXCEPT !.CTRL = @ \ {BLE_CTRL_CONN_INIT}]
         /\ g_ble_handle' = [g_ble_handle EXCEPT !.state = BLE_STATE_DISCONNECTING]
         /\ ble_last' = BleLast("disconnect", STATUS_OK, <<>>, <<>>)
         /\ UNCHANGED gic_vars

\* ble_disconnect()
ble_disconnect ==
    IF ~g_ble_handle.initialized
    THEN /\ ble_last' = BleLast("disconnect", STATUS_NOT_READY, <<>>, <<>>)
         /\ UNCHANGED <<g_ble_handle, ble_regs, gic_vars>>
    ELSE IF g_ble_handle.state # BLE_STATE_CONNECTED
    THEN /\ ble_last' = BleLast("disconnect", STATUS_INVALID_PARAM, <<>>, <<>>)
         /\ UNCHANGED <<g_ble_handle, ble_regs, gic_vars>>
    ELSE /\ ble_regs' = [ble_regs EXCEPT !.CTRL = @ \ {BLE_CTRL_CONN_INIT}]
         /\ g_ble_handle' = [g_ble_handle EXCEPT !.state = BLE_STATE_DISCONNECTING]
         /\ ble_last' = BleLast("disconnect", STATUS_OK, <<>>, <<>>)
         /\ UNCHANGED gic_vars

\* the buffers callers pass to ble_send_data; BleTxBufs[d] is what data
\* pointer d points to, by index from 0
BleTxBufs == << [i \in 0 .. (BLE_MAX_PAYLOAD_SIZE - 1) |-> (3 * i + 1) % U8] >>

\* a wait for the transmitter that also accepts a flag seen clear at the
\* read made once the count has run out
BleTxInTime_Inclusive(clear) == clear # Never /\ clear <= BLE_TX_BUDGET

\* the wait for the transmitter of ble_send_data: clear is the first read
\* of STATUS that shows TX_BUSY clear; the loop leaves timeout > 0 iff that
\* read comes before the count has run out
BleTxInTime(clear) == clear # Never /\ clear < BLE_TX_BUDGET

\* ble_send_data(data, len), data the data pointer.  arg logs the call's
\* arguments and the hardware's behaviour, wr the writes of TX_LEN and
\* TX_DATA in program order
ble_send_data(data, len, clear) ==
    LET done(r, wr) ==
            ble_last' = [op |-> "send_data", ret |-> r, enq |-> <<>>, cb |-> <<>>,
                         arg |-> [data |-> data, len |-> len, clear |-> clear],
                         wr |-> wr]
        reject(r) ==
            /\ done(r, <<>>)
            /\ UNCHANGED <<g_ble_handle, ble_regs, gic_vars>>
    IN  IF data = NULL THEN reject(STATUS_INVALID_PARAM)
        ELSE IF len > BLE_MAX_PAYLOAD_SIZE THEN reject(STATUS_INVALID_PARAM)
        ELSE IF ~g_ble_handle.initialized THEN reject(STATUS_NOT_READY)
        ELSE IF g_ble_handle.state # BLE_STATE_CONNECTED
        THEN reject(STATUS_NOT_READY)
        ELSE IF ~BleTxInTime(clear) THEN reject(STATUS_TIMEOUT)
        ELSE /\ done(STATUS_OK,
                     <<Ev("TX_LEN", len, 0)>> \o
                     [i \in 1 .. len |-> Ev("TX_DATA", BleTxBufs[data][i - 1], 0)])
             /\ g_ble_handle' = [g_ble_handle EXCEPT !.tx_complete = FALSE]
             /\ ble_regs' = [ble_regs EXCEPT !.CTRL = @ \cup {BLE_CTRL_TX_START}]
             /\ UNCHANGED gic_vars

\* ble_read_rx_data on a handle: rx_len_reg is the RX_LEN register, byte
\* what every read of RX_DATA delivers.  rx_buffer is the part of the array
\* written so far
ble_read_rx_data(h, rx_len_reg, byte) ==
    LET rx_len == IF rx_len_reg > BLE_MAX_PAYLOAD_SIZE
                  THEN BLE_MAX_PAYLOAD_SIZE ELSE rx_len_reg
        n == IF rx_len > Len(h.rx_buffer) THEN rx_len ELSE Len(h.rx_buffer)
    IN  [h EXCEPT !.rx_len = rx_len,
                  !.rx_buffer = [i \in 1 .. n |->
                                    IF i <= rx_len THEN byte ELSE h.rx_buffer[i]],
                  !.rx_pending = TRUE]

\* one flag of ble_irq_handler that enqueues an event.  c is [h, evt, enq]:
\* the handle, the handler's local event and the log of its enqueue calls
BleIrqEnqueue(c, int_flags, flag, h1, evt1) ==
    IF BIT_CHECK(int_flags, flag)
    THEN [h   |-> ble_enqueue_event(h1, evt1).h,
          evt |-> evt1,
          enq |-> Append(c.enq, EnqRecord(h1, evt1))]
    ELSE c

\* a handler that serves the transmit-done flag before the disconnected flag
BleIrqEntry_SentBeforeDisconnected(h, int_flags, rx_len_reg, byte) ==
    LET c0 == [h |-> h, evt |-> BleEvent(BLE_EVT_NONE, ZeroAddr, <<>>), enq |-> <<>>]
        c1 == BleIrqEnqueue(c0, int_flags, BLE_INT_CONNECTED,
                  [c0.h EXCEPT !.state = BLE_STATE_CONNECTED],
                  [c0.evt EXCEPT !.type = BLE_EVT_CONNECTED,
                                 !.peer_addr = c0.h.peer_addr])
        c2 == BleIrqEnqueue(c1, int_flags, BLE_INT_TX_DONE,
                  [c1.h EXCEPT !.tx_complete = TRUE],
                  [c1.evt EXCEPT !.type = BLE_EVT_DATA_SENT])
        c3 == BleIrqEnqueue(c2, int_flags, BLE_INT_DISCONNECTED,
                  [c2.h EXCEPT !.state = BLE_STATE_IDLE],
                  [c2.evt EXCEPT !.type = BLE_EVT_DISCONNECTED])
        c4 == IF BIT_CHECK(int_flags, BLE_INT_RX_DONE)
              THEN [c3 EXCEPT !.h = ble_read_rx_data(c3.h, rx_len_reg, byte)]
              ELSE c3
    IN  BleIrqEnqueue(c4, int_flags, BLE_INT_ERROR,
                  [c4.h EXCEPT !.state = BLE_STATE_ERROR],
                  [c4.evt EXCEPT !.type = BLE_EVT_ERROR])

\* ble_irq_handler(): int_flags is INT_FLAG as read at entry
BleIrqEntry(h, int_flags, rx_len_reg, byte) ==
    LET c0 == [h |-> h, evt |-> BleEvent(BLE_EVT_NONE, ZeroAddr, <<>>), enq |-> <<>>]
        c1 == BleIrqEnqueue(c0, int_flags, BLE_INT_CONNECTED,
                  [c0.h EXCEPT !.state = BLE_STATE_CONNECTED],
                  [c0.evt EXCEPT !.type = BLE_EVT_CONNECTED,
                                 !.peer_addr = c0.h.peer_addr])
        c2 == BleIrqEnqueue(c1, int_flags, BLE_INT_DISCONNECTED,
                  [c1.h EXCEPT !.state = BLE_STATE_IDLE],
                  [c1.evt EXCEPT !.type = BLE_EVT_DISCONNECTED])
        c3 == IF BIT_CHECK(int_flags, BLE_INT_RX_DONE)
              THEN [c2 EXCEPT !.h = ble_read_rx_data(c2.h, rx_len_reg, byte)]
              ELSE c2
        c4 == BleIrqEnqueue(c3, int_flags, BLE_INT_TX_DONE,
                  [c3.h EXCEPT !.tx_complete = TRUE],
                  [c3.evt EXCEPT !.type = BLE_EVT_DATA_SENT])
    IN  BleIrqEnqueue(c4, int_flags, BLE_INT_ERROR,
                  [c4.h EXCEPT !.state = BLE_STATE_ERROR],
                  [c4.evt EXCEPT !.type = BLE_EVT_ERROR])

\* a handler entry that hands its events to the callback itself
ble_irq_handler_Direct(int_flags, rx_len_reg, byte) ==
    LET c == BleIrqEntry(g_ble_handle, int_flags, rx_len_reg, byte)
    IN  /\ g_ble_handle' = c.h
        /\ ble_last' = BleLast("irq", STATUS_OK, c.enq,
                               IF g_ble_handle.callback # NULL
                               THEN [k \in 1 .. Len(c.enq) |-> c.enq[k].event]
                               ELSE <<>>)
        /\ UNCHANGED <<ble_regs, gic_vars>>

\* ble_irq_handler(): int_flags, rx_len_reg and byte are what INT_FLAG,
\* RX_LEN and RX_DATA deliver
ble_irq_handler(int_flags, rx_len_reg, byte) ==
    LET c == BleIrqEntry(g_ble_handle, int_flags, rx_len_reg, byte)
    IN  /\ g_ble_handle' = c.h
        /\ ble_last' = BleLast("irq", STATUS_OK, c.enq, <<>>)
        /\ UNCHANGED <<ble_regs, gic_vars>>

\* a drain loop that hands the events over newest first
RECURSIVE BleDrain_Reversed(_, _)
BleDrain_Reversed(h, cb) ==
    LET d == ble_dequeue_event(h)
    IN  IF ~d.has_event THEN [h |-> h, cb |-> cb]
        ELSE BleDrain_Reversed(d.h, IF h.callback # NULL
                                    THEN <<d.event>> \o cb ELSE cb)

\* gic_acknowledge_irq(): iar is the value read from GICC_IAR
gic_acknowledge_irq(iar) == iar % 1024

\* an end of interrupt that keeps the low eight bits of the id
gic_end_of_irq_LowBits(irq_num) == Ev("EOIR", irq_num % MAX_IRQ_NUM, 0)

\* gic_end_of_irq(irq_num): the write of GICC_EOIR
gic_end_of_irq(irq_num) == Ev("EOIR", irq_num, 0)

\* irq_handler() of main.c.  irq_last is a history variable: the reads
\* and writes of the interrupt controller interface and the calls and
\* returns of the engines' handlers in the entry just made, in program
\* order
irq_handler(iar, sr1, dr, int_flags) ==
    LET irq_num == gic_acknowledge_irq(iar)
        around(call) == <<Ev("IAR", irq_num, 0)>> \o call
                           \o <<gic_end_of_irq(irq_num)>>
        handler(id) == <<Ev("CALL", id, 0), Ev("RETURN", id, 0)>>
    IN  IF irq_num = IRQ_I2C0 \/ irq_num = IRQ_I2C1
        THEN /\ i2c_irq_handler(IF irq_num = IRQ_I2C0 THEN 0 ELSE 1, sr1, dr, FALSE)
             /\ irq_last' = around(handler(irq_num))
             /\ UNCHANGED ble_vars
        ELSE IF irq_num = IRQ_BLE
        THEN /\ ble_irq_handler(int_flags, 0, 0)
             /\ irq_last' = around(handler(irq_num))
             /\ UNCHANGED <<i2c_vars, i2c_xfer>>
        ELSE /\ irq_last' = around(<<>>)
             /\ UNCHANGED <<i2c_vars, i2c_xfer, ble_vars, gic_vars>>

\* the drain loop of ble_process: [h, cb], cb the events handed to the
\* callback, in order
RECURSIVE BleDrain(_, _)
BleDrain(h, cb) ==
    LET d == ble_dequeue_event(h)
    IN  IF ~d.has_event THEN [h |-> h, cb |-> cb]
        ELSE BleDrain(d.h, IF h.callback # NULL THEN Append(cb, d.event) ELSE cb)

\* the calls of ble_dequeue_event made by the drain loop, the last one
\* being the call that finds the queue empty
RECURSIVE BleDeqLog(_)
BleDeqLog(h) ==
    LET d == ble_dequeue_event(h)
    IN  <<DeqRecord(h)>> \o (IF d.has_event THEN BleDeqLog(d.h) ELSE <<>>)

\* ble_process()
ble_process ==
    LET h0 == g_ble_handle
        rx == BleEvent(BLE_EVT_DATA_RECEIVED, h0.peer_addr,
                       SubSeq(h0.rx_buffer, 1, h0.rx_len))
        h1 == IF h0.rx_pending THEN [h0 EXCEPT !.rx_pending = FALSE] ELSE h0
        cb1 == IF h0.rx_pending /\ h0.callback # NULL THEN <<rx>> ELSE <<>>
        d == BleDrain(h1, cb1)
    IN  /\ g_ble_handle' = d.h
        /\ ble_last' = [op |-> "process", ret |-> STATUS_OK, enq |-> <<>>,
                        cb |-> d.cb, deq |-> BleDeqLog(h1)]
        /\ UNCHANGED <<ble_regs, gic_vars>>

(***************************************************************************)
(* Specifications                                                          *)
(***************************************************************************)
\* hardware behaviour during the n waits of a blocking call: the first k
\* waits see their flag at once, the others at poll p
WaitBehaviour(n, k, p) == [w \in 1 .. n |-> IF w <= k THEN 0 ELSE p]

\* timeout_ms arguments with hardware behaviours for n waits:  a budget of
\* one millisecond with every behaviour, no budget, and a budget that
\* wraps, each with a prompt and a slow hardware
WaitInputs(n) ==
    { <<1, WaitBehaviour(n, k, 10000)>> : k \in 0 .. n }
    \cup { <<1, WaitBehaviour(n, 0, 9999)>> }
    \cup { <<t, WaitBehaviour(n, k, 9999)>> : t \in Timeouts \ {1}, k \in {0, n} }

\* arguments of a transfer request: the complete requests with every
\* length, the requests with a null pointer, and a request on the instance
\* id out of range
TransferArgs ==
    { <<focus, r, len>> : r \in ValidRequests, len \in Lens }
    \cup { <<focus, r, 1>> : r \in Requests \ ValidRequests }
    \cup { <<I2C_INSTANCE_MAX, r, 1>> : r \in {q \in ValidRequests : q.cb = 1} }
\* a blocking call takes no callback
BlockingArgs == {a \in TransferArgs : a[2].cb # NULL}

\* The calls of one behaviour are all on one instance, focus (either one),
\* or on the out-of-range instance id.
InstanceArgs == {focus, I2C_INSTANCE_MAX}

Init ==
    /\ g_i2c_handles = [i \in Instances |-> InitHandle]
    /\ i2c_regs = [i \in Instances |-> InitRegs]
    /\ mem = InitMem
    /\ gic_enabled = {}
    /\ gic_priority = [w \in 0 .. (MAX_IRQ_NUM \div 4 - 1) |-> <<0, 0, 0, 0>>]
    /\ i2c_last = [op |-> "reset", inst |-> 0, ret |-> STATUS_OK, ev |-> <<>>]
    /\ i2c_xfer = [i \in Instances |-> InitXfer]
    /\ focus \in Instances
    /\ g_ble_handle = InitBleHandle
    /\ ble_regs = InitBleRegs
    /\ ble_last = BleLast("reset", STATUS_OK, <<>>, <<>>)
    /\ ble_fifo = <<>>
    /\ ble_pc = [pc |-> "main", evt |-> BleEvent(BLE_EVT_NONE, ZeroAddr, <<>>),
                 idx |-> 0, first |-> "copy"]
    /\ irq_last = <<>>
    /\ i2c_round = [phase |-> 0, snap |-> <<>>]
    /\ gic_last = [op |-> "reset", irq_num |-> 0, ret |-> STATUS_OK, wr |-> <<>>]
    /\ i2c_wait = <<I2cWaitRecord(0), I2cWaitRecord(0)>>
    /\ irq_sr1 = {}
    /\ blk = BlkIdle
    /\ i2c_cb = I2cNoCallback

I2cInit ==
    /\ \E i \in InstanceArgs, c \in ConfigArgs : i2c_init(i, c)
    /\ UNCHANGED <<focus, ble_vars, aux_vars>>

I2cDeinit ==
    /\ \E i \in InstanceArgs : i2c_deinit(i)
    /\ UNCHANGED <<focus, ble_vars, aux_vars>>

I2cWriteBlocking ==
    /\ \E a \in BlockingArgs : \E w \in WaitInputs(a[3] + 4) :
          i2c_write_blocking(a[1], a[2].addr, TxData(a[2]), a[3], w[1], w[2])
    /\ UNCHANGED <<focus, ble_vars, aux_vars>>

I2cReadBlocking ==
    /\ \E a \in BlockingArgs : \E w \in WaitInputs(a[3] + 2), dr \in RxBytes :
          i2c_read_blocking(a[1], a[2].addr, RxData(a[2]), a[3], w[1], w[2], dr)
    /\ UNCHANGED <<focus, ble_vars, aux_vars>>

I2cWriteAsync ==
    /\ \E a \in TransferArgs :
          i2c_write_async(a[1], a[2].addr, TxData(a[2]), a[3], a[2].cb)
    /\ UNCHANGED <<focus, ble_vars, aux_vars>>

I2cReadAsync ==
    /\ \E a \in TransferArgs :
          i2c_read_async(a[1], a[2].addr, RxData(a[2]), a[3], a[2].cb)
    /\ UNCHANGED <<focus, ble_vars, aux_vars>>

\* an interrupt entry with an instance id out of range reads no register
I2cIrqHandlerBadInstance ==
    /\ \E dr \in RxBytes : i2c_irq_handler(I2C_INSTANCE_MAX, {}, dr, FALSE)
    /\ UNCHANGED <<focus, ble_vars, aux_vars>>

I2cIrqHandler ==
    /\ \E sr1 \in SUBSET Sr1Flags, dr \in RxBytes :
          i2c_irq_handler(focus, sr1, dr, FALSE)
    /\ UNCHANGED <<focus, ble_vars, aux_vars>>

\* the same entry, with the per-transfer counters kept
I2cIrqHandlerCounted ==
    /\ \E sr1 \in SUBSET Sr1Flags, dr \in RxBytes :
          i2c_irq_handler(focus, sr1, dr, TRUE)
    /\ UNCHANGED <<focus, ble_vars, aux_vars>>

\* The interrupt-driven engine: async requests and interrupt entries.
Next ==
    \/ I2cInit
    \/ I2cDeinit
    \/ I2cWriteAsync
    \/ I2cReadAsync
    \/ I2cIrqHandler
    \/ I2cIrqHandlerBadInstance

Spec == Init /\ [][Next]_vars

\* The same engine on hardware that keeps raising the interrupts a transfer
\* under way is waiting for in its data phase: transmit-empty while bytes
\* are left, transmit-empty with byte-finished after the last one,
\* receive-not-empty for a read, or acknowledge failure.  Entries with
\* start-sent, address-acknowledged or any other status may come in between
\* as often as they like.
I2cAwaitedFlags(handle) ==
    (IF handle.state = I2C_STATE_BUSY_TX
     THEN IF handle.buffer_idx < handle.buffer_len
          THEN {{I2C_SR1_TXE}} ELSE {{I2C_SR1_TXE, I2C_SR1_BTF}}
     ELSE {{I2C_SR1_RXNE}})
    \cup {{I2C_SR1_AF}}

I2cIrqAwaited ==
    /\ g_i2c_handles[focus].state \in {I2C_STATE_BUSY_TX, I2C_STATE_BUSY_RX}
    /\ \E sr1 \in I2cAwaitedFlags(g_i2c_handles[focus]), dr \in RxBytes :
          i2c_irq_handler(focus, sr1, dr, FALSE)
    /\ UNCHANGED <<focus, ble_vars, aux_vars>>

SpecAwaited == Spec /\ WF_vars(I2cIrqAwaited)

\* The interrupt-driven engine with the completion callback as a step of
\* its own.  IrqEntry is the handler up to the invocation of the callback
\* (every store of the completion arms precedes it); the callback then
\* runs, here one that returns at once or one that asks for a new transfer
\* on the same instance; then the handler finishes.  Nothing else runs in
\* between: the entry is in interrupt context on the one core.  i2c_cb.pc is
\* "main" outside the callback, "callback" when it has been invoked and
\* "return" when it is back; started says whether it asked for a transfer.
I2cCbInit ==
    /\ i2c_cb.pc = "main"
    /\ \E c \in ConfigArgs : i2c_init(focus, c)
    /\ UNCHANGED <<focus, ble_vars, aux_vars>>

I2cCbRequest ==
    /\ i2c_cb.pc = "main"
    /\ \E r \in ValidRequests, len \in Lens \ {0} :
          \/ i2c_write_async(focus, r.addr, TxData(r), len, r.cb)
          \/ i2c_read_async(focus, r.addr, RxData(r), len, r.cb)
    /\ UNCHANGED <<focus, ble_vars, aux_vars>>

I2cCbIrqEnter ==
    /\ i2c_cb.pc = "main"
    /\ \E sr1 \in SUBSET Sr1Flags, dr \in RxBytes :
          i2c_irq_handler(focus, sr1, dr, FALSE)
    /\ i2c_cb' = IF CountEv(i2c_last'.ev, "CB") = 0 THEN I2cNoCallback
                 ELSE [pc |-> "callback", inst |-> focus,
                       result |-> i2c_last'.ev[Len(i2c_last'.ev)].b,
                       started |-> FALSE]
    /\ UNCHANGED <<focus, ble_vars, ble_fifo, ble_pc, irq_last, i2c_round,
                   gic_last, i2c_wait, irq_sr1, blk>>

I2cCbBody ==
    /\ i2c_cb.pc = "callback"
    /\ \/ /\ i2c_cb' = [i2c_cb EXCEPT !.pc = "return"]
          /\ UNCHANGED <<i2c_vars, i2c_xfer, gic_vars>>
       \/ /\ \E r \in ValidRequests, len \in Lens \ {0} :
                \/ i2c_write_async(i2c_cb.inst, r.addr, TxData(r), len, r.cb)
                \/ i2c_read_async(i2c_cb.inst, r.addr, RxData(r), len, r.cb)
          /\ i2c_cb' = [i2c_cb EXCEPT !.pc = "return", !.started = TRUE]
    /\ UNCHANGED <<focus, ble_vars, ble_fifo, ble_pc, irq_last, i2c_round,
                   gic_last, i2c_wait, irq_sr1, blk>>

I2cCbIrqReturn ==
    /\ i2c_cb.pc = "return"
    /\ g_i2c_handles' = [g_i2c_handles EXCEPT
                            ![i2c_cb.inst] = IrqAfterCallback(@)]
    /\ i2c_cb' = [i2c_cb EXCEPT !.pc = "main"]
    /\ UNCHANGED <<i2c_regs, mem, i2c_last, i2c_xfer, gic_vars, focus, ble_vars,
                   ble_fifo, ble_pc, irq_last, i2c_round, gic_last, i2c_wait,
                   irq_sr1, blk>>

NextCallback ==
    \/ I2cCbInit
    \/ I2cCbRequest
    \/ I2cCbIrqEnter
    \/ I2cCbBody
    \/ I2cCbIrqReturn

SpecCallback == Init /\ [][NextCallback]_vars

\* The same engine with the history counters of i2c_xfer kept.
NextCounted ==
    \/ I2cInit
    \/ I2cDeinit
    \/ I2cWriteAsync
    \/ I2cReadAsync
    \/ I2cIrqHandlerCounted

SpecCounted == Init /\ [][NextCounted]_vars

\* The polling engine: blocking calls, on an instance that an async request
\* may have left busy.
NextBlocking ==
    \/ I2cInit
    \/ I2cDeinit
    \/ I2cWriteBlocking
    \/ I2cReadBlocking
    \/ I2cWriteAsync
    \/ I2cReadAsync

SpecBlocking == Init /\ [][NextBlocking]_vars

\* The polling engine alone: every transfer is a blocking call.
NextPolling ==
    \/ I2cInit
    \/ I2cDeinit
    \/ I2cWriteBlocking
    \/ I2cReadBlocking

SpecPolling == Init /\ [][NextPolling]_vars

\* The I2C engine with its round trips.  i2c_round is a history variable
\* for the instance focus: phase 1 after a successful i2c_init, 2 once
\* i2c_deinit has followed, 3 once i2c_init has followed that, whatever
\* came between; snap is what the first of these i2c_init calls left: the
\* initialized flag, the transfer state, the registers and the enable
\* state and priority word of the interrupt line.
RoundSnap(handles, regs, en, prio) ==
    [initialized |-> handles[focus].initialized,
     state       |-> handles[focus].state,
     regs        |-> regs[focus],
     irq_enabled |-> I2cIrqNum(focus) \in en,
     irq_prio    |-> prio[I2cIrqNum(focus) \div 4]]

I2cInitRound ==
    /\ \E c \in ConfigArgs : i2c_init(focus, c)
    /\ i2c_round' =
          IF i2c_last'.ret # STATUS_OK THEN i2c_round
          ELSE IF i2c_round.phase = 2 THEN [i2c_round EXCEPT !.phase = 3]
          ELSE [phase |-> 1,
                snap  |-> RoundSnap(g_i2c_handles', i2c_regs',
                                    gic_enabled', gic_priority')]
    /\ UNCHANGED <<focus, ble_vars, ble_fifo, ble_pc, irq_last, gic_last, i2c_wait, irq_sr1, blk, i2c_cb>>

I2cDeinitRound ==
    /\ i2c_deinit(focus)
    /\ i2c_round' = IF i2c_round.phase \in {1, 3}
                    THEN [i2c_round EXCEPT !.phase = 2] ELSE i2c_round
    /\ UNCHANGED <<focus, ble_vars, ble_fifo, ble_pc, irq_last, gic_last, i2c_wait, irq_sr1, blk, i2c_cb>>

NextRound ==
    \/ I2cInitRound
    \/ I2cDeinitRound
    \/ I2cWriteAsync
    \/ I2cReadAsync
    \/ I2cIrqHandler

SpecRound == Init /\ [][NextRound]_vars

\* The BLE link engine: initialisation, the start of advertising (an
\* enqueue from the foreground), transmit-done interrupts (an enqueue from
\* the handler) and the foreground drain.
BleReadyPolls == {0, BLE_READY_BUDGET - 1, BLE_READY_BUDGET, Never}
BleIrqInputs == {{}, {BLE_INT_TX_DONE}}

BleInit ==
    /\ \E cfg \in {NULL} \cup DOMAIN BleConfigs, cb \in {NULL, 1},
          ready \in BleReadyPolls : ble_init(cfg, cb, ready)
    /\ UNCHANGED <<i2c_vars, i2c_xfer, focus, aux_vars>>

BleDeinit ==
    /\ ble_deinit
    /\ UNCHANGED <<i2c_vars, i2c_xfer, focus, aux_vars>>

BleStartAdvertising ==
    /\ ble_start_advertising
    /\ UNCHANGED <<i2c_vars, i2c_xfer, focus, aux_vars>>

BleStopAdvertising ==
    /\ ble_stop_advertising
    /\ UNCHANGED <<i2c_vars, i2c_xfer, focus, aux_vars>>

BleIrqHandler ==
    /\ \E f \in BleIrqInputs : ble_irq_handler(f, 0, 0)
    /\ UNCHANGED <<i2c_vars, i2c_xfer, focus, aux_vars>>

BleProcess ==
    /\ ble_process
    /\ UNCHANGED <<i2c_vars, i2c_xfer, focus, aux_vars>>

NextBle ==
    \/ BleInit
    \/ BleDeinit
    \/ BleStartAdvertising
    \/ BleIrqHandler
    \/ BleProcess

\* the I2C engine is left alone, so one choice of focus is enough
InitBle == Init /\ focus = 0

SpecBle == InitBle /\ [][NextBle]_vars

\* The interrupt-driven engine with the status flags on record.  irq_sr1
\* is a history variable: SR1 as the last interrupt entry read it, empty
\* again at each request.
I2cIrqHandlerFlags ==
    /\ \E sr1 \in SUBSET Sr1Flags, dr \in RxBytes :
          /\ i2c_irq_handler(focus, sr1, dr, FALSE)
          /\ irq_sr1' = sr1
    /\ UNCHANGED <<focus, ble_vars, ble_fifo, ble_pc, irq_last, i2c_round,
                   gic_last, i2c_wait, blk, i2c_cb>>

\* an async request of one or more bytes with a buffer and a callback
I2cAsyncStart ==
    /\ \E r \in {q \in ValidRequests : q.cb = 1}, len \in Lens \ {0} :
          \/ i2c_write_async(focus, r.addr, TxData(r), len, r.cb)
          \/ i2c_read_async(focus, r.addr, RxData(r), len, r.cb)
    /\ irq_sr1' = {}
    /\ UNCHANGED <<focus, ble_vars, ble_fifo, ble_pc, irq_last, i2c_round,
                   gic_last, i2c_wait, blk, i2c_cb>>

NextFlags ==
    \/ I2cInit
    \/ I2cAsyncStart
    \/ I2cIrqHandlerFlags

SpecFlags == InitBle /\ [][NextFlags]_vars

\* The busy-wait count on its own.  i2c_wait is a history variable: the
\* last two waits whose flag never showed, the earlier one first, each
\* with its timeout argument and the number of polls it made.  The timeout
\* arguments lie around the products that first exceed 32 bits
\* (429497 * 10000) and twice 32 bits (858994 * 10000).
WaitTimeouts ==
    {0, 1, 2, 1000, 65535, 65536, 429496, 429497, 429498, 500000,
     858993, 858994}

I2cWaitExhausted ==
    /\ \E timeout_ms \in WaitTimeouts :
          i2c_wait' = <<i2c_wait[2], I2cWaitRecord(timeout_ms)>>
    /\ UNCHANGED <<i2c_vars, i2c_xfer, gic_vars, focus, ble_vars,
                   ble_fifo, ble_pc, irq_last, i2c_round, gic_last, irq_sr1, blk, i2c_cb>>

NextWait ==
    \/ I2cWaitExhausted

SpecWait == InitBle /\ [][NextWait]_vars

\* The BLE link engine with both advertising commands and no interrupt
\* that queues an event.
BleIrqIdle ==
    /\ ble_irq_handler({}, 0, 0)
    /\ UNCHANGED <<i2c_vars, i2c_xfer, focus, aux_vars>>

NextBleAdv ==
    \/ BleInit
    \/ BleDeinit
    \/ BleStartAdvertising
    \/ BleStopAdvertising
    \/ BleIrqIdle
    \/ BleProcess

SpecBleAdv == InitBle /\ [][NextBleAdv]_vars

\* The BLE link engine with receive-and-transmit-done and disconnect
\* interrupts and the foreground drain.  ble_fifo is a history variable:
\* the events whose ble_enqueue_event call returned STATUS_OK and that no
\* ble_dequeue_event call has taken out since, oldest first; a successful
\* ble_init empties the queue and with it ble_fifo.
Enqueued(enq) ==
    LET ok == SelectSeq(enq, LAMBDA r : r.ret = STATUS_OK)
    IN  [k \in 1 .. Len(ok) |-> ok[k].event]

DropFirst(q, n) == SubSeq(q, n + 1, Len(q))

BleRxIrqInputs == {{BLE_INT_RX_DONE, BLE_INT_TX_DONE}, {BLE_INT_DISCONNECTED}}
BleRxLens == {2}
BleRxByte == 90

\* ble_init with the hardware ready at the first poll
BleInitReady ==
    /\ \E cfg \in DOMAIN BleConfigs, cb \in {NULL, 1} : ble_init(cfg, cb, 0)
    /\ ble_fifo' = IF ble_last'.ret = STATUS_OK THEN <<>> ELSE ble_fifo
    /\ UNCHANGED <<i2c_vars, i2c_xfer, focus, ble_pc, irq_last, i2c_round, gic_last, i2c_wait, irq_sr1, blk, i2c_cb>>

BleIrqHandlerRx ==
    /\ \E f \in BleRxIrqInputs, n \in BleRxLens : ble_irq_handler(f, n, BleRxByte)
    /\ ble_fifo' = ble_fifo \o Enqueued(ble_last'.enq)
    /\ UNCHANGED <<i2c_vars, i2c_xfer, focus, ble_pc, irq_last, i2c_round, gic_last, i2c_wait, irq_sr1, blk, i2c_cb>>

BleProcessRx ==
    /\ ble_process
    /\ ble_fifo' = DropFirst(ble_fifo, Len(ble_last'.deq) - 1)
    /\ UNCHANGED <<i2c_vars, i2c_xfer, focus, ble_pc, irq_last, i2c_round, gic_last, i2c_wait, irq_sr1, blk, i2c_cb>>

NextBleRx ==
    \/ BleInitReady
    \/ BleIrqHandlerRx
    \/ BleProcessRx

SpecBleRx == InitBle /\ [][NextBleRx]_vars

\* ble_process statement by statement, with interrupt entries between the
\* statements.  ble_pc.pc is the position of the foreground: "main"
\* outside ble_process, "loop" before a ble_dequeue_event call, "copy"
\* before its memcpy, "advance" before its store to evt_queue_tail, "call"
\* before the callback; ble_pc.evt is the local evt, ble_pc.idx the tail
\* index the call read.  evt_queue_head and evt_queue_tail are not
\* volatile, so the build may emit the memcpy and the tail store in either
\* order: ble_pc.first is the one emitted first.
BleQueueIrqInputs == {{BLE_INT_TX_DONE}, {BLE_INT_DISCONNECTED}}

\* a tail store that skips a slot
BleAdvanceTail_BySlots(h) ==
    [h EXCEPT !.evt_queue_tail = (h.evt_queue_tail + 2) % BLE_EVENT_QUEUE_SIZE]

BleAdvanceTail(h) ==
    [h EXCEPT !.evt_queue_tail = (h.evt_queue_tail + 1) % BLE_EVENT_QUEUE_SIZE]

BleStepFrame ==
    UNCHANGED <<i2c_vars, i2c_xfer, focus, irq_last, i2c_round, gic_last,
                ble_regs, gic_vars, i2c_wait, irq_sr1, blk, i2c_cb>>

\* the one ble_init call of the application's start-up
BleInitMain ==
    /\ ble_pc.pc = "main"
    /\ ~g_ble_handle.initialized
    /\ \E cfg \in DOMAIN BleConfigs, ready \in {0, BLE_READY_BUDGET} :
          ble_init(cfg, 1, ready)
    /\ ble_fifo' = IF ble_last'.ret = STATUS_OK THEN <<>> ELSE ble_fifo
    /\ UNCHANGED <<i2c_vars, i2c_xfer, focus, ble_pc, irq_last, i2c_round, gic_last, i2c_wait, irq_sr1, blk, i2c_cb>>

\* an interrupt entry, at any position of the foreground, once ble_init
\* has enabled the line
BleIrqAnywhere ==
    /\ IRQ_BLE \in gic_enabled
    /\ \E f \in BleQueueIrqInputs : ble_irq_handler(f, 0, 0)
    /\ ble_fifo' = ble_fifo \o Enqueued(ble_last'.enq)
    /\ UNCHANGED <<i2c_vars, i2c_xfer, focus, ble_pc, irq_last, i2c_round, gic_last, i2c_wait, irq_sr1, blk, i2c_cb>>

\* entry of ble_process and its pending-receive part
BleProcEnter ==
    /\ ble_pc.pc = "main"
    /\ LET h == g_ble_handle
           rx == BleEvent(BLE_EVT_DATA_RECEIVED, h.peer_addr,
                          SubSeq(h.rx_buffer, 1, h.rx_len))
       IN  /\ g_ble_handle' = [h EXCEPT !.rx_pending = FALSE]
           /\ ble_pc' = [ble_pc EXCEPT !.pc = "loop",
                                       !.evt = IF h.rx_pending THEN rx ELSE @]
           /\ ble_last' = BleLast("process_enter", STATUS_OK, <<>>,
                                  IF h.rx_pending /\ h.callback # NULL
                                  THEN <<rx>> ELSE <<>>)
    /\ UNCHANGED ble_fifo
    /\ BleStepFrame

\* the test of ble_dequeue_event; with no event the loop and ble_process end
BleProcTest ==
    /\ ble_pc.pc = "loop"
    /\ IF g_ble_handle.evt_queue_tail # g_ble_handle.evt_queue_head
       THEN \E first \in {"copy", "advance"} :
               ble_pc' = [ble_pc EXCEPT !.pc = first, !.first = first,
                                        !.idx = g_ble_handle.evt_queue_tail]
       ELSE ble_pc' = [ble_pc EXCEPT
                         !.pc = "main",
                         !.evt = BleEvent(BLE_EVT_NONE, ZeroAddr, <<>>),
                         !.idx = 0, !.first = "copy"]
    /\ ble_last' = BleLast("process_test", STATUS_OK, <<>>, <<>>)
    /\ UNCHANGED <<g_ble_handle, ble_fifo>>
    /\ BleStepFrame

\* the memcpy of ble_dequeue_event
BleProcCopy ==
    /\ ble_pc.pc = "copy"
    /\ ble_pc' = [ble_pc EXCEPT
                    !.pc = IF ble_pc.first = "copy" THEN "advance" ELSE "call",
                    !.evt = g_ble_handle.event_queue[ble_pc.idx]]
    /\ ble_last' = BleLast("process_copy", STATUS_OK, <<>>, <<>>)
    /\ UNCHANGED <<g_ble_handle, ble_fifo>>
    /\ BleStepFrame

\* the store to evt_queue_tail of ble_dequeue_event
BleProcAdvance ==
    /\ ble_pc.pc = "advance"
    /\ g_ble_handle' = BleAdvanceTail(g_ble_handle)
    /\ ble_pc' = [ble_pc EXCEPT
                    !.pc = IF ble_pc.first = "copy" THEN "call" ELSE "copy"]
    /\ ble_last' = BleLast("process_advance", STATUS_OK, <<>>, <<>>)
    /\ UNCHANGED ble_fifo
    /\ BleStepFrame

\* the callback of the loop body
BleProcCall ==
    /\ ble_pc.pc = "call"
    /\ ble_pc' = [ble_pc EXCEPT !.pc = "loop"]
    /\ ble_last' = BleLast("process_call", STATUS_OK, <<>>,
                           IF g_ble_handle.callback # NULL
                           THEN <<ble_pc.evt>> ELSE <<>>)
    /\ ble_fifo' = DropFirst(ble_fifo, 1)
    /\ UNCHANGED g_ble_handle
    /\ BleStepFrame

NextBleQueue ==
    \/ BleInitMain
    \/ BleIrqAnywhere
    \/ BleProcEnter
    \/ BleProcTest
    \/ BleProcCopy
    \/ BleProcAdvance
    \/ BleProcCall

SpecBleQueue == InitBle /\ [][NextBleQueue]_vars

\* The BLE link engine with its link commands: advertising, connecting
\* and the connected interrupt.
BleConnect ==
    /\ \E addr \in {NULL} \cup DOMAIN BleAddrs : ble_connect(addr)
    /\ UNCHANGED <<i2c_vars, i2c_xfer, focus, aux_vars>>

BleIrqConnected ==
    /\ ble_irq_handler({BLE_INT_CONNECTED}, 0, 0)
    /\ UNCHANGED <<i2c_vars, i2c_xfer, focus, aux_vars>>

NextBleLink ==
    \/ BleInitReady
    \/ BleStartAdvertising
    \/ BleStopAdvertising
    \/ BleConnect
    \/ BleIrqConnected

SpecBleLink == InitBle /\ [][NextBleLink]_vars

\* The BLE link engine with its connection commands: scanning,
\* connecting, disconnecting, advertising (the one command that leaves
\* Connected for another state), and the connected and disconnected
\* interrupts, each alone and both in one entry.
BleConnIrqInputs ==
    {{BLE_INT_CONNECTED}, {BLE_INT_DISCONNECTED},
     {BLE_INT_CONNECTED, BLE_INT_DISCONNECTED}}

BleStartScan ==
    /\ ble_start_scan
    /\ UNCHANGED <<i2c_vars, i2c_xfer, focus, aux_vars>>

BleStopScan ==
    /\ ble_stop_scan
    /\ UNCHANGED <<i2c_vars, i2c_xfer, focus, aux_vars>>

BleDisconnect ==
    /\ ble_disconnect
    /\ UNCHANGED <<i2c_vars, i2c_xfer, focus, aux_vars>>

BleIrqConn ==
    /\ IRQ_BLE \in gic_enabled
    /\ \E f \in BleConnIrqInputs : ble_irq_handler(f, 0, 0)
    /\ UNCHANGED <<i2c_vars, i2c_xfer, focus, aux_vars>>

NextBleConn ==
    \/ BleInitMain
    \/ BleStartScan
    \/ BleStopScan
    \/ BleConnect
    \/ BleDisconnect
    \/ BleStartAdvertising
    \/ BleIrqConn

SpecBleConn == InitBle /\ [][NextBleConn]_vars

\* The BLE link engine with its transmit command: a link set up by
\* ble_connect and the connected interrupt, taken down by ble_disconnect,
\* and transmit-done interrupts.  Lengths are none, a few bytes, the
\* payload cap and one more; the transmitter is free at once, at the last
\* read the count allows, at the read after it, or never.
BleTxLens == {0, 2, BLE_MAX_PAYLOAD_SIZE, BLE_MAX_PAYLOAD_SIZE + 1}
BleTxPolls == {0, BLE_TX_BUDGET - 1, BLE_TX_BUDGET, Never}

BleSendData ==
    /\ \E data \in {NULL} \cup DOMAIN BleTxBufs :
          \E len \in IF data = NULL THEN {2} ELSE BleTxLens :
             \E clear \in IF data = NULL \/ len > BLE_MAX_PAYLOAD_SIZE
                          THEN {0} ELSE BleTxPolls :
                ble_send_data(data, len, clear)
    /\ UNCHANGED <<i2c_vars, i2c_xfer, focus, aux_vars>>

\* the connected interrupt the hardware raises for a connection that
\* ble_connect has started
BleIrqLinkUp ==
    /\ g_ble_handle.state = BLE_STATE_CONNECTING
    /\ ble_irq_handler({BLE_INT_CONNECTED}, 0, 0)
    /\ UNCHANGED <<i2c_vars, i2c_xfer, focus, aux_vars>>

NextBleTx ==
    \/ BleInitMain
    \/ BleConnect
    \/ BleDisconnect
    \/ BleIrqLinkUp
    \/ BleIrqHandler
    \/ BleSendData

SpecBleTx == InitBle /\ [][NextBleTx]_vars

\* The BLE link engine with every command, the interrupt entry and the
\* foreground drain.  ble_init is called once, as main.c does; the
\* connected interrupt follows a ble_connect; commands and interrupts that
\* queue an event are taken while fewer than MaxQueued events have been
\* queued since ble_init.
BleQueueRoom == g_ble_handle.evt_queue_head < MaxQueued

NextBleAll ==
    \/ BleInitMain
    \/ BleDeinit
    \/ BleQueueRoom /\ BleStartAdvertising
    \/ BleQueueRoom /\ BleStopAdvertising
    \/ BleStartScan
    \/ BleStopScan
    \/ BleConnect
    \/ BleDisconnect
    \/ BleSendData
    \/ BleQueueRoom /\ BleIrqLinkUp
    \/ BleIrqIdle
    \/ BleProcess

SpecBleAll == InitBle /\ [][NextBleAll]_vars

\* The BLE interrupt entry with every combination of the five flags it
\* serves, on a link that ble_connect may have given a peer address.  An
\* entry is taken while fewer than MaxQueued - 1 events have been queued
\* since ble_init and it brings their number to MaxQueued + 1 at most.
BleAllFlags == {BLE_INT_CONNECTED, BLE_INT_DISCONNECTED, BLE_INT_RX_DONE,
                BLE_INT_TX_DONE, BLE_INT_ERROR}

BleIrqAllFlags ==
    /\ \E f \in SUBSET BleAllFlags, n \in BleRxLens :
          /\ g_ble_handle.evt_queue_head + 1 < MaxQueued
          /\ g_ble_handle.evt_queue_head + Cardinality(f \ {BLE_INT_RX_DONE})
                <= MaxQueued + 1
          /\ ble_irq_handler(f, n, BleRxByte)
    /\ UNCHANGED <<i2c_vars, i2c_xfer, focus, aux_vars>>

NextBleFlags ==
    \/ BleInitMain
    \/ BleConnect
    \/ BleIrqAllFlags

SpecBleFlags == InitBle /\ [][NextBleFlags]_vars

\* The interrupt dispatch of main.c over both engines.  GICC_IAR delivers
\* the id of the line of the I2C instance in use or of the BLE line (with
\* or without a CPU id in bits 10-12), of a line no engine owns, or the
\* spurious id 1023.
IarValues == {I2cIrqNum(focus), IRQ_BLE, IRQ_BLE + 1024, IRQ_BLE + 1, 1023}

IrqHandler ==
    /\ \E iar \in IarValues :
          \E sr1 \in IF iar \in {IRQ_I2C0, IRQ_I2C1}
                      THEN {{I2C_SR1_SB}, {I2C_SR1_ADDR}, {I2C_SR1_TXE},
                            {I2C_SR1_TXE, I2C_SR1_BTF}, {I2C_SR1_AF}}
                      ELSE {{}},
             f \in IF iar = IRQ_BLE THEN BleIrqInputs ELSE {{}},
             dr \in RxBytes : irq_handler(iar, sr1, dr, f)
    /\ UNCHANGED <<focus, ble_fifo, ble_pc, i2c_round, gic_last, i2c_wait, irq_sr1, blk, i2c_cb>>

NextIrq ==
    \/ I2cInit
    \/ I2cWriteAsync
    \/ IrqHandler

SpecIrq == Init /\ [][NextIrq]_vars

\* The interrupt controller layer called directly.  gic_last is a
\* history variable: the call just made, its argument, its return value
\* and its register writes.
GicIrqNums == {0, IRQS_PER_REGISTER - 1, IRQS_PER_REGISTER, IRQ_BLE,
               MAX_IRQ_NUM - 1, MAX_IRQ_NUM, MAX_IRQ_NUM + IRQ_BLE, 1023}

GicEnableIrq ==
    /\ \E irq_num \in GicIrqNums :
          LET r == gic_enable_irq(gic_enabled, irq_num)
          IN  /\ gic_enabled' = r.en
              /\ gic_last' = [op |-> "enable", irq_num |-> irq_num,
                              ret |-> r.ret, wr |-> r.wr]
    /\ UNCHANGED <<i2c_vars, i2c_xfer, focus, ble_vars, gic_priority,
                   ble_fifo, ble_pc, irq_last, i2c_round, i2c_wait, irq_sr1, blk, i2c_cb>>

GicDisableIrq ==
    /\ \E irq_num \in GicIrqNums :
          LET r == gic_disable_irq(gic_enabled, irq_num)
          IN  /\ gic_enabled' = r.en
              /\ gic_last' = [op |-> "disable", irq_num |-> irq_num,
                              ret |-> r.ret, wr |-> r.wr]
    /\ UNCHANGED <<i2c_vars, i2c_xfer, focus, ble_vars, gic_priority,
                   ble_fifo, ble_pc, irq_last, i2c_round, i2c_wait, irq_sr1, blk, i2c_cb>>

NextGic ==
    \/ GicEnableIrq
    \/ GicDisableIrq

SpecGic == InitBle /\ [][NextGic]_vars

\* gic_set_priority called directly, on lines that share a priority word,
\* on lines of other words and on ids past the last line.
GicPrioIrqNums == {0, 1, 3, 4, IRQ_BLE, MAX_IRQ_NUM - 1, MAX_IRQ_NUM, 1023}

GicPriorities == {0, I2C_IRQ_PRIORITY, U8 - 1}

GicSetPriority ==
    /\ \E irq_num \in GicPrioIrqNums, priority \in GicPriorities :
          LET r == gic_set_priority(gic_priority, irq_num, priority)
          IN  /\ gic_priority' = r.prio
              /\ gic_last' = [op |-> "set_priority", irq_num |-> irq_num,
                              ret |-> r.ret, wr |-> <<>>,
                              priority |-> priority]
    /\ UNCHANGED <<i2c_vars, i2c_xfer, focus, ble_vars, gic_enabled,
                   ble_fifo, ble_pc, irq_last, i2c_round, i2c_wait, irq_sr1, blk, i2c_cb>>

NextGicPrio ==
    \/ GicSetPriority

SpecGicPrio == InitBle /\ [][NextGicPrio]_vars

\* The blocking calls with their wait loops run one evaluation at a time.
\* A call is entered when none is under way (they run on the one foreground
\* thread); at each evaluation the hardware shows the awaited condition or
\* does not.  The processor keeps executing the loop it is in, which is the
\* weak fairness of BlkPoll; nothing is assumed of the flags.
BlkOps == {"i2c_write_blocking", "i2c_read_blocking", "ble_send_data", "ble_init"}

BlkTimeouts == {0, 1}

BlkCall ==
    /\ blk.pc # "wait"
    /\ \E op \in BlkOps, len \in Lens \ {0}, timeout_ms \in BlkTimeouts :
          /\ op \in {"ble_send_data", "ble_init"}
                => len = 1 /\ timeout_ms = 0
          /\ blk' = BlkEnter(op, len, timeout_ms)
    /\ UNCHANGED <<i2c_vars, i2c_xfer, focus, ble_vars, gic_vars, ble_fifo,
                   ble_pc, irq_last, i2c_round, gic_last, i2c_wait, irq_sr1, i2c_cb>>

BlkPoll ==
    /\ blk.pc = "wait"
    /\ \E met \in BOOLEAN : blk' = BlkStep(blk, met)
    /\ UNCHANGED <<i2c_vars, i2c_xfer, focus, ble_vars, gic_vars, ble_fifo,
                   ble_pc, irq_last, i2c_round, gic_last, i2c_wait, irq_sr1, i2c_cb>>

NextBlk ==
    \/ BlkCall
    \/ BlkPoll

SpecBlk == InitBle /\ [][NextBlk]_vars

SpecBlkFair == SpecBlk /\ WF_vars(BlkPoll)

(***************************************************************************)
(* Properties                                                              *)
(***************************************************************************)
\* the bytes written to the data register in a log, in order
DrWrites(ev) ==
    LET w == SelectSeq(ev, LAMBDA x : x.k = "DR")
    IN  [k \in 1 .. Len(w) |-> w[k].a]

\* the callback invocations in a log, in order
CbCalls(ev) == SelectSeq(ev, LAMBDA x : x.k = "CB")

\* the events of a log that write a register of the controller
RegWrites(ev) == SelectSeq(ev, LAMBDA x : x.k \in {"START", "STOP", "DR", "ACK", "AFCLR"})

\* the events queued when an enqueue is called
QueuedCount(q) ==
    (q.head + BLE_EVENT_QUEUE_SIZE - q.tail) % BLE_EVENT_QUEUE_SIZE

\* C1: an async request (write or read, with a buffer and a callback) on
\* an initialised instance whose state is not Idle returns STATUS_BUSY,
\* issues no START and leaves the handle (state, buffer pointers, length,
\* index, device address, callback) and the registers as they were.
C1_BusyRequestRejected ==
    [][\A a \in TransferArgs :
          ( /\ a[1] \in Instances
            /\ a[2] \in ValidRequests
            /\ g_i2c_handles[a[1]].initialized
            /\ g_i2c_handles[a[1]].state # I2C_STATE_IDLE
            /\ \/ i2c_write_async(a[1], a[2].addr, TxData(a[2]), a[3], a[2].cb)
               \/ i2c_read_async(a[1], a[2].addr, RxData(a[2]), a[3], a[2].cb) )
          => ( /\ i2c_last'.ret = STATUS_BUSY
               /\ CountEv(i2c_last'.ev, "START") = 0
               /\ g_i2c_handles' = g_i2c_handles
               /\ i2c_regs' = i2c_regs
               /\ mem' = mem )]_vars

\* C1 witness: a read request was turned down on an instance busy
\* transmitting.
C1_Witness ==
    /\ i2c_last.op = "read_async"
    /\ i2c_last.ret = STATUS_BUSY
    /\ i2c_last.inst \in Instances
    /\ g_i2c_handles[focus].state = I2C_STATE_BUSY_TX
    /\ g_i2c_handles[focus].buffer_len = 2

\* C2: a blocking call on an instance that an async transfer holds in
\* BusyTx or BusyRx is turned down: it returns an error, writes no
\* register and leaves the handle as it was.
C2_BlockingRejectedWhileBusy ==
    [][( /\ i2c_last'.op \in {"write_blocking", "read_blocking"}
         /\ i2c_last'.inst \in Instances
         /\ g_i2c_handles[i2c_last'.inst].initialized
         /\ g_i2c_handles[i2c_last'.inst].state
               \in {I2C_STATE_BUSY_TX, I2C_STATE_BUSY_RX} )
       => ( /\ i2c_last'.ret # STATUS_OK
            /\ RegWrites(i2c_last'.ev) = <<>>
            /\ g_i2c_handles' = g_i2c_handles )]_vars

\* C3: in every reachable state of the interrupt-driven engine the buffer
\* index is at most the buffer length, and the handler touches no buffer
\* position at or past the length.
C3_IndexWithinLength ==
    \A i \in Instances :
        /\ g_i2c_handles[i].buffer_idx <= g_i2c_handles[i].buffer_len
        /\ (i2c_last.op = "irq" /\ i2c_last.inst = i)
           => \A k \in DOMAIN i2c_last.ev :
                 i2c_last.ev[k].k \in {"TXRD", "RXWR"}
                 => i2c_last.ev[k].b < g_i2c_handles[i].buffer_len

\* an interrupt entry has just completed an async read with success
ReadCompleted ==
    /\ i2c_last.op = "irq"
    /\ i2c_last.inst \in Instances
    /\ i2c_last.st = I2C_STATE_BUSY_RX
    /\ CountEv(i2c_last.ev, "RXWR") = 1
    /\ CbCalls(i2c_last.ev) # <<>>
    /\ CbCalls(i2c_last.ev)[1].b = STATUS_OK

\* C4: when an async read of N >= 1 bytes completes with success, the
\* handler has cleared ACK exactly once and issued STOP exactly once
\* during the transfer.
C4_ReadStopsOnce ==
    ReadCompleted
    => /\ i2c_xfer[i2c_last.inst].ackclr = 1
       /\ i2c_xfer[i2c_last.inst].stops = 1

\* C5: the completion callback is invoked at most once for an accepted
\* async transfer, whatever interrupt entries follow its completion.
C5_CallbackOnce ==
    \A i \in Instances : i2c_xfer[i].cbs <= 1

\* the handler treated an acknowledge failure: one STOP, state Error, the
\* stored callback (if one is stored) invoked once with STATUS_ERROR
AckFailureHandled ==
    /\ CountEv(i2c_last'.ev, "STOP") = 1
    /\ g_i2c_handles'[focus].state = I2C_STATE_ERROR
    /\ CbCalls(i2c_last'.ev) =
          IF g_i2c_handles[focus].callback = NULL THEN <<>>
          ELSE <<Ev("CB", g_i2c_handles[focus].callback, STATUS_ERROR)>>

\* C6 as stated: an interrupt entry in BusyTx with AF set issues STOP,
\* moves the state to Error and invokes the callback once with an error.
C6_AckFailureAnyFlags ==
    [][\A sr1 \in SUBSET Sr1Flags, dr \in RxBytes :
          ( /\ I2C_SR1_AF \in sr1
            /\ g_i2c_handles[focus].state = I2C_STATE_BUSY_TX
            /\ i2c_irq_handler(focus, sr1, dr, FALSE) )
          => AckFailureHandled]_vars

\* C6: an interrupt entry in BusyTx with AF set and none of SB, ADDR and
\* TXE set issues STOP, moves the state to Error and invokes the stored
\* callback once with STATUS_ERROR.
C6_AckFailureAlone ==
    [][\A sr1 \in SUBSET Sr1Flags, dr \in RxBytes :
          ( /\ I2C_SR1_AF \in sr1
            /\ sr1 \cap {I2C_SR1_SB, I2C_SR1_ADDR, I2C_SR1_TXE} = {}
            /\ g_i2c_handles[focus].state = I2C_STATE_BUSY_TX
            /\ i2c_irq_handler(focus, sr1, dr, FALSE) )
          => AckFailureHandled]_vars

\* C6 witness: the handler found a write transfer under way, one byte
\* sent, and took the acknowledge-failure branch.
C6_Witness ==
    /\ i2c_last.op = "irq"
    /\ i2c_last.inst \in Instances
    /\ i2c_last.st = I2C_STATE_BUSY_TX
    /\ CountEv(i2c_last.ev, "AFCLR") = 1
    /\ CbCalls(i2c_last.ev) = <<Ev("CB", 1, STATUS_ERROR)>>
    /\ g_i2c_handles[focus].state = I2C_STATE_ERROR
    /\ g_i2c_handles[focus].buffer_idx = 1

\* C7: a blocking call that passes validation and fails (busy bus or a
\* wait that times out) leaves the state Error and has issued STOP exactly
\* once.
C7_FailedBlockingStops ==
    ( /\ i2c_last.op \in {"write_blocking", "read_blocking"}
      /\ i2c_last.inst \in Instances
      /\ i2c_last.ret \in {STATUS_BUSY, STATUS_TIMEOUT} )
    => /\ g_i2c_handles[i2c_last.inst].state = I2C_STATE_ERROR
       /\ CountEv(i2c_last.ev, "STOP") = 1

\* every wait of a blocking call (the bus-free wait and the flag waits)
\* sees its condition at a poll before the count of polls runs out
AllWithin(timeout_ms, hw) ==
    \A k \in DOMAIN hw :
        PollBefore(hw[k], Mul32(timeout_ms, TIMEOUT_LOOP_COUNT))

\* C8: i2c_write_blocking on an initialised instance with a data buffer,
\* len >= 1 and timeout_ms >= 1, the bus free and every flag seen within the budget,
\* returns STATUS_OK and leaves the state Idle; the data register gets the
\* address byte (address shifted left, write bit 0) and then data[0] to
\* data[len-1] in order, once each, and STOP is issued exactly once, after
\* the last byte.
C8_WriteBlockingSuccess ==
    [][(i2c_last'.op = "write_blocking" /\ i2c_last'.inst \in Instances)
       => \A a \in BlockingArgs : \A w \in WaitInputs(a[3] + 4) :
             ( /\ a[1] \in Instances
               /\ a[2] \in ValidRequests
               /\ g_i2c_handles[a[1]].initialized
               /\ a[3] >= 1
               /\ w[1] >= 1
               /\ AllWithin(w[1], w[2])
               /\ i2c_write_blocking(a[1], a[2].addr, TxData(a[2]), a[3],
                                     w[1], w[2]) )
             => ( /\ i2c_last'.ret = STATUS_OK
                  /\ g_i2c_handles'[a[1]].state = I2C_STATE_IDLE
                  /\ DrWrites(i2c_last'.ev) =
                        <<(2 * a[2].addr) % U8>> \o
                        [k \in 1 .. a[3] |-> mem[TxData(a[2])][k - 1]]
                  /\ CountEv(i2c_last'.ev, "STOP") = 1
                  /\ i2c_last'.ev[Len(i2c_last'.ev)].k = "STOP" )]_vars

\* C8 witness: a blocking write of the longest buffer returned STATUS_OK.
C8_Witness ==
    /\ i2c_last.op = "write_blocking"
    /\ i2c_last.ret = STATUS_OK
    /\ Len(DrWrites(i2c_last.ev)) = MaxLen + 1
    /\ g_i2c_handles[focus].state = I2C_STATE_IDLE

\* C9: ble_enqueue_event on a queue with no free slot returns
\* STATUS_ERROR and leaves head, tail and the stored events as they were.
C9_FullQueueRejects ==
    \A k \in DOMAIN ble_last.enq :
        QueuedCount(ble_last.enq[k].before) = BLE_EVENT_QUEUE_SIZE - 1
        => /\ ble_last.enq[k].ret = STATUS_ERROR
           /\ ble_last.enq[k].after = ble_last.enq[k].before

\* C9 witness: an enqueue was tried on the queue with no free slot.
C9_Witness ==
    \E k \in DOMAIN ble_last.enq :
        /\ QueuedCount(ble_last.enq[k].before) = BLE_EVENT_QUEUE_SIZE - 1
        /\ ble_last.enq[k].ret = STATUS_ERROR

\* C10: the queue holds BLE_EVENT_QUEUE_SIZE events: an enqueue fails only
\* when that many are queued, so the enqueues on a queue holding fewer
\* succeed.
C10_CapacityIsQueueSize ==
    \A k \in DOMAIN ble_last.enq :
        QueuedCount(ble_last.enq[k].before) < BLE_EVENT_QUEUE_SIZE
        => ble_last.enq[k].ret = STATUS_OK

\* C11: ble_dequeue_event on an empty queue (head = tail) reports no event
\* and leaves head, tail and the stored events as they were; on a
\* non-empty queue it hands out the event at the tail and changes nothing
\* but the tail, which advances by one modulo the queue size.
C11_DequeueIsFifoPop ==
    ble_last.op = "process"
    => \A k \in DOMAIN ble_last.deq :
          LET d == ble_last.deq[k]
          IN  IF d.before.head = d.before.tail
              THEN ~d.has_event /\ d.after = d.before /\ d.tail_only
              ELSE /\ d.has_event
                   /\ d.event = d.before.slots[d.before.tail]
                   /\ d.after = [d.before EXCEPT
                                   !.tail = (@ + 1) % BLE_EVENT_QUEUE_SIZE]
                   /\ d.tail_only

\* C11 witness: one ble_process call dequeued from a queue whose tail was
\* at the last slot, then from others, and at last found the queue empty.
C11_Witness ==
    /\ ble_last.op = "process"
    /\ Len(ble_last.deq) >= 3
    /\ ble_last.deq[1].before.tail = BLE_EVENT_QUEUE_SIZE - 1
    /\ ble_last.deq[1].event # ble_last.deq[2].event
    /\ ~ble_last.deq[Len(ble_last.deq)].has_event

\* C12: one uninterrupted ble_process call with a callback registered
\* hands to the callback first, if the pending-receive flag is set, a
\* DataReceived event built from the staged buffer (its first rx_len
\* bytes, with the stored peer address), and then the queued events in
\* the order in which they were enqueued; when it returns the queue is
\* empty and the pending flag is clear.
C12_StagedThenFifo ==
    [][BleProcessRx =>
         LET h == g_ble_handle
             staged == IF h.rx_pending
                       THEN << BleEvent(BLE_EVT_DATA_RECEIVED, h.peer_addr,
                                        SubSeq(h.rx_buffer, 1, h.rx_len)) >>
                       ELSE <<>>
         IN  /\ h.callback # NULL => ble_last'.cb = staged \o ble_fifo
             /\ g_ble_handle'.evt_queue_head = g_ble_handle'.evt_queue_tail
             /\ ~g_ble_handle'.rx_pending
             /\ ble_fifo' = <<>>]_vars

\* C12 witness: a ble_process call has handed over a DataReceived event
\* with two data bytes and then at least two queued events of different
\* types.
C12_Witness ==
    /\ ble_last.op = "process"
    /\ Len(ble_last.cb) >= 3
    /\ ble_last.cb[1].type = BLE_EVT_DATA_RECEIVED
    /\ ble_last.cb[1].data = <<BleRxByte, BleRxByte>>
    /\ ble_last.cb[2].type # BLE_EVT_DATA_RECEIVED
    /\ ble_last.cb[3].type # BLE_EVT_DATA_RECEIVED
    /\ ble_last.cb[2].type # ble_last.cb[3].type
    /\ ble_fifo = <<>>

\* C13: with interrupt entries (which enqueue) between the statements of
\* the foreground ble_process (which dequeues), the event handed to the
\* registered callback is each time the oldest event whose enqueue
\* succeeded and that was not handed over before, so no event is
\* delivered twice, out of order or without having been enqueued; and when
\* the drain loop finds the queue empty, every event enqueued so far has
\* been handed over.
C13_ExactlyOnceInOrder ==
    [][/\ (BleProcCall /\ g_ble_handle.callback # NULL)
            => /\ ble_fifo # <<>>
               /\ ble_last'.cb = <<Head(ble_fifo)>>
       /\ (BleProcTest /\ ble_pc'.pc = "main") => ble_fifo = <<>>]_vars

\* C13 witness: the foreground has stored the new tail and not yet copied
\* the event out, and an interrupt entry has just enqueued an event that
\* filled the queue up to the slot still to be copied.
C13_Witness ==
    /\ ble_pc.pc = "copy"
    /\ ble_pc.first = "advance"
    /\ ble_last.op = "irq"
    /\ Len(ble_last.enq) = 1
    /\ ble_last.enq[1].ret = STATUS_OK
    /\ ble_last.enq[1].after.head = ble_pc.idx
    /\ Len(ble_fifo) = BLE_EVENT_QUEUE_SIZE
    /\ ble_fifo[1].type # ble_fifo[2].type

\* C14: right after the i2c_init that completes i2c_init, i2c_deinit,
\* i2c_init on an instance, whatever came between, the instance is
\* initialized and Idle and its registers and interrupt line are exactly
\* as the first i2c_init left them; and an async request (write or read,
\* with a buffer, a callback and a length of at least 1) made then returns
\* STATUS_OK, issues START and leaves the instance BusyTx or BusyRx with
\* index 0, as it does after the first i2c_init.
C14_RoundTrip ==
    [][LET Accepted(busy) ==
               /\ i2c_last'.ret = STATUS_OK
               /\ CountEv(i2c_last'.ev, "START") = 1
               /\ g_i2c_handles'[focus].state = busy
               /\ g_i2c_handles'[focus].buffer_idx = 0
               /\ g_i2c_handles'[focus].initialized
           Accepts ==
               \A a \in TransferArgs :
                  (a[1] = focus /\ a[2] \in ValidRequests /\ a[3] >= 1)
                  => /\ i2c_write_async(a[1], a[2].addr, TxData(a[2]), a[3], a[2].cb)
                        => Accepted(I2C_STATE_BUSY_TX)
                     /\ i2c_read_async(a[1], a[2].addr, RxData(a[2]), a[3], a[2].cb)
                        => Accepted(I2C_STATE_BUSY_RX)
       IN  \* the step is the second i2c_init of a round trip
           /\ (I2cInitRound /\ i2c_round.phase = 2 /\ i2c_round'.phase = 3)
                 => /\ g_i2c_handles'[focus].initialized
                    /\ g_i2c_handles'[focus].state = I2C_STATE_IDLE
                    /\ RoundSnap(g_i2c_handles', i2c_regs',
                                 gic_enabled', gic_priority') = i2c_round.snap
           \* the step follows a first or a second i2c_init
           /\ ( /\ i2c_round.phase \in {1, 3}
                /\ i2c_last.op = "init"
                /\ i2c_last.ret = STATUS_OK ) => Accepts]_vars

\* C14 witness: after a round trip whose first part saw a write transfer,
\* a read request has been accepted.
C14_Witness ==
    /\ i2c_round.phase = 3
    /\ i2c_last.op = "read_async"
    /\ i2c_last.ret = STATUS_OK
    /\ g_i2c_handles[focus].state = I2C_STATE_BUSY_RX
    /\ g_i2c_handles[focus].tx_buffer = TxBuf
    /\ g_i2c_handles[focus].buffer_idx = 0

\* C15: ble_connect with a non-null address on the initialized link in a
\* state other than Idle and Scanning (Advertising, Connecting, Connected)
\* returns STATUS_BUSY, leaves the link state and the stored peer address
\* as they were and writes no register, so the connection-initiate bit of
\* CTRL is not set by the call.
C15_ConnectBusy ==
    [][\A addr \in DOMAIN BleAddrs :
          ( /\ g_ble_handle.initialized
            /\ g_ble_handle.state \notin {BLE_STATE_IDLE, BLE_STATE_SCANNING}
            /\ ble_connect(addr) )
          => ( /\ ble_last'.ret = STATUS_BUSY
               /\ g_ble_handle'.state = g_ble_handle.state
               /\ g_ble_handle'.peer_addr = g_ble_handle.peer_addr
               /\ g_ble_handle' = g_ble_handle
               /\ ble_regs' = ble_regs )]_vars

\* C15 witness: ble_connect was turned down while advertising, with no
\* peer address stored and the connection-initiate bit clear.
C15_Witness ==
    /\ ble_last.op = "connect"
    /\ ble_last.ret = STATUS_BUSY
    /\ g_ble_handle.initialized
    /\ g_ble_handle.state = BLE_STATE_ADVERTISING
    /\ g_ble_handle.peer_addr = ZeroAddr
    /\ BLE_CTRL_CONN_INIT \notin ble_regs.CTRL

\* C16: an entry of the interrupt dispatch acknowledges once, reading
\* the line id, and as its last act writes that id, once, as end of
\* interrupt; the call of the engine's handler that owns the line, if an
\* engine owns it, has returned before that write; and no end of
\* interrupt is written that an acknowledge does not precede.
C16_AckThenHandlerThenEoi ==
    irq_last # <<>>
    => LET n  == Len(irq_last)
           id == irq_last[1].a
           owned == id \in {IRQ_I2C0, IRQ_I2C1, IRQ_BLE}
       IN  /\ irq_last[1].k = "IAR"
           /\ CountEv(irq_last, "IAR") = 1
           /\ CountEv(irq_last, "EOIR") = 1
           /\ irq_last[n] = Ev("EOIR", id, 0)
           /\ IF owned
              THEN /\ n = 4
                   /\ irq_last[2] = Ev("CALL", id, 0)
                   /\ irq_last[3] = Ev("RETURN", id, 0)
              ELSE n = 2

\* C16 witness: an entry for the BLE line; the handler has enqueued an
\* event and returned before the end of interrupt.
C16_Witness ==
    /\ irq_last # <<>>
    /\ irq_last[1] = Ev("IAR", IRQ_BLE, 0)
    /\ irq_last[3] = Ev("RETURN", IRQ_BLE, 0)
    /\ irq_last[4] = Ev("EOIR", IRQ_BLE, 0)
    /\ ble_last.op = "irq"
    /\ Len(ble_last.enq) = 1

\* C17: an async request (write or read, with a buffer and a callback) of
\* length zero on an initialised Idle instance returns
\* STATUS_INVALID_PARAM, issues no START and leaves the instance Idle and
\* its transfer fields as they were.
C17_AsyncRejectsZeroLength ==
    [][\A a \in TransferArgs :
          ( /\ a[1] \in Instances
            /\ a[2] \in ValidRequests
            /\ a[3] = 0
            /\ g_i2c_handles[a[1]].initialized
            /\ g_i2c_handles[a[1]].state = I2C_STATE_IDLE
            /\ \/ i2c_write_async(a[1], a[2].addr, TxData(a[2]), a[3], a[2].cb)
               \/ i2c_read_async(a[1], a[2].addr, RxData(a[2]), a[3], a[2].cb) )
          => ( /\ i2c_last'.ret = STATUS_INVALID_PARAM
               /\ CountEv(i2c_last'.ev, "START") = 0
               /\ g_i2c_handles' = g_i2c_handles )]_vars

\* C18: a blocking call (write or read) that passes validation and in
\* which a wait runs out of polls (the bus-free wait, the SB or ADDR wait,
\* a TXE or RXNE wait, the BTF wait) returns STATUS_TIMEOUT and has issued
\* STOP.
C18_ExhaustedWaitTimesOutAndStops ==
    [][(i2c_last'.op \in {"write_blocking", "read_blocking"}
        /\ i2c_last'.inst \in Instances)
       => \A a \in BlockingArgs :
             ( /\ a[1] \in Instances
               /\ a[2] \in ValidRequests
               /\ g_i2c_handles[a[1]].initialized
               /\ a[3] >= 1 )
             => /\ \A w \in WaitInputs(a[3] + 4) :
                      ( /\ ~AllWithin(w[1], w[2])
                        /\ i2c_write_blocking(a[1], a[2].addr, TxData(a[2]), a[3],
                                              w[1], w[2]) )
                      => ( /\ i2c_last'.ret = STATUS_TIMEOUT
                           /\ CountEv(i2c_last'.ev, "STOP") >= 1 )
                /\ \A w \in WaitInputs(a[3] + 2), dr \in RxBytes :
                      ( /\ ~AllWithin(w[1], w[2])
                        /\ i2c_read_blocking(a[1], a[2].addr, RxData(a[2]), a[3],
                                             w[1], w[2], dr) )
                      => ( /\ i2c_last'.ret = STATUS_TIMEOUT
                           /\ CountEv(i2c_last'.ev, "STOP") >= 1 )]_vars

\* C19: gic_enable_irq and gic_disable_irq with a line id of 256 or more
\* return STATUS_INVALID_PARAM and write no register; with a line id below
\* 256 they return STATUS_OK and afterwards that line is enabled
\* (gic_enable_irq) or disabled (gic_disable_irq) and every other line is
\* enabled exactly if it was before.
C19_EnableDisableOneLine ==
    [][(GicEnableIrq \/ GicDisableIrq)
       => LET irq_num == gic_last'.irq_num
          IN  IF irq_num >= 256
              THEN /\ gic_last'.ret = STATUS_INVALID_PARAM
                   /\ gic_last'.wr = <<>>
                   /\ gic_enabled' = gic_enabled
              ELSE /\ gic_last'.ret = STATUS_OK
                   /\ Len(gic_last'.wr) = 1
                   /\ (irq_num \in gic_enabled') = (gic_last'.op = "enable")
                   /\ \A other \in (0 .. 1023) \ {irq_num} :
                         (other \in gic_enabled') = (other \in gic_enabled)]_vars

\* C19 witness: line 255 has just been disabled while the lines 31 and 32,
\* next to each other in two registers, and the BLE line stay enabled.
C19_Witness ==
    /\ gic_last.op = "disable"
    /\ gic_last.irq_num = MAX_IRQ_NUM - 1
    /\ gic_last.ret = STATUS_OK
    /\ gic_enabled = {IRQS_PER_REGISTER - 1, IRQS_PER_REGISTER, IRQ_BLE}

\* C20: ble_start_advertising returns STATUS_OK exactly when the link is
\* initialized and Idle or Connected, and the link is then Advertising;
\* ble_stop_advertising returns STATUS_OK exactly when the link is
\* initialized and Advertising, and the link is then Idle.  Otherwise the
\* call returns STATUS_NOT_READY when the link is not initialized, else
\* STATUS_BUSY (start) or STATUS_INVALID_PARAM (stop), and the link state
\* and the event queue are as before.
C20_AdvertisingCommands ==
    [][LET h == g_ble_handle
           Refused(code) ==
               /\ ble_last'.ret = IF h.initialized THEN code ELSE STATUS_NOT_READY
               /\ g_ble_handle'.state = h.state
               /\ QueueOf(g_ble_handle') = QueueOf(h)
               /\ g_ble_handle' = h
               /\ ble_regs' = ble_regs
       IN  /\ ble_start_advertising
              => IF h.initialized
                    /\ h.state \in {BLE_STATE_IDLE, BLE_STATE_CONNECTED}
                 THEN /\ ble_last'.ret = STATUS_OK
                      /\ g_ble_handle'.state = BLE_STATE_ADVERTISING
                 ELSE Refused(STATUS_BUSY)
           /\ ble_stop_advertising
              => IF h.initialized /\ h.state = BLE_STATE_ADVERTISING
                 THEN /\ ble_last'.ret = STATUS_OK
                      /\ g_ble_handle'.state = BLE_STATE_IDLE
                 ELSE Refused(STATUS_INVALID_PARAM)]_vars

\* C20 witness: ble_start_advertising has succeeded on a Connected link:
\* the event queued before its AdvStarted event is the Connected event.
C20_Witness ==
    /\ ble_last.op = "start_advertising"
    /\ ble_last.ret = STATUS_OK
    /\ g_ble_handle.state = BLE_STATE_ADVERTISING
    /\ Len(ble_last.enq) = 1
    /\ ble_last.enq[1].ret = STATUS_OK
    /\ LET q == ble_last.enq[1].before
       IN  /\ QueuedCount(q) >= 1
           /\ q.slots[(q.head + BLE_EVENT_QUEUE_SIZE - 1)
                         % BLE_EVENT_QUEUE_SIZE].type = BLE_EVT_CONNECTED

\* C21: no foreground command of the BLE engine sets the link state to
\* Connected.  A step that makes the state Connected is an entry of
\* ble_irq_handler with the connected flag set.  A ble_connect call that
\* finds the engine initialized in Idle or Scanning and is given an address
\* returns STATUS_OK, stores that address as the peer address and moves
\* the state to Connecting.  A ble_disconnect call returns STATUS_OK only
\* from Connected and then moves the state to Disconnecting; from any
\* other state it returns an error and leaves the handle and the registers
\* as they were.
C21_ConnectedOnlyFromIrq ==
    [][ LET h == g_ble_handle
            frame == UNCHANGED <<g_ble_handle, ble_regs, gic_vars>>
        IN  /\ (g_ble_handle'.state = BLE_STATE_CONNECTED
                   /\ h.state # BLE_STATE_CONNECTED)
               => \E f \in BleConnIrqInputs :
                     /\ BIT_CHECK(f, BLE_INT_CONNECTED)
                     /\ ble_irq_handler(f, 0, 0)
            /\ \A addr \in DOMAIN BleAddrs :
                  (ble_connect(addr) /\ h.initialized
                      /\ h.state \in {BLE_STATE_IDLE, BLE_STATE_SCANNING})
                  => /\ ble_last'.ret = STATUS_OK
                     /\ g_ble_handle'.peer_addr = BleAddrs[addr]
                     /\ g_ble_handle'.state = BLE_STATE_CONNECTING
            /\ ble_last'.op = "disconnect"
               => IF h.initialized /\ h.state = BLE_STATE_CONNECTED
                  THEN /\ ble_last'.ret = STATUS_OK
                       /\ g_ble_handle'.state = BLE_STATE_DISCONNECTING
                  ELSE /\ ble_last'.ret # STATUS_OK
                       /\ frame ]_vars

\* a successful connect from Scanning to an address other than the stored
\* one, a connected interrupt after it, and a successful disconnect
C21_Witness ==
    /\ ble_last.op = "disconnect"
    /\ ble_last.ret = STATUS_OK
    /\ g_ble_handle.state = BLE_STATE_DISCONNECTING
    /\ g_ble_handle.peer_addr = BleAddrs[1]
    /\ QueuedCount(QueueOf(g_ble_handle)) >= 1
    /\ BLE_CTRL_SCAN_START \in ble_regs.CTRL

\* C22: a ble_send_data call writes TX_LEN with the length, then TX_DATA
\* with the bytes of the caller's buffer in order, clears tx_complete and
\* sets TX_START exactly when it is given a buffer and a length of at most
\* 244, the engine is initialized, the link is Connected and the
\* transmitter was seen free before the count ran out.  In every other
\* case it returns STATUS_INVALID_PARAM, STATUS_NOT_READY or
\* STATUS_TIMEOUT, writes no transmit register and leaves the handle and
\* the registers as they were.
C22_SendOnlyWhenConnectedAndFree ==
    [][ ble_last'.op = "send_data" =>
        LET a == ble_last'.arg
            h == g_ble_handle
        IN  IF /\ a.data # NULL
               /\ a.len <= 244
               /\ h.initialized
               /\ h.state = BLE_STATE_CONNECTED
               /\ a.clear # Never /\ a.clear < 100000
            THEN /\ ble_last'.ret = STATUS_OK
                 /\ Len(ble_last'.wr) = a.len + 1
                 /\ ble_last'.wr[1] = Ev("TX_LEN", a.len, 0)
                 /\ \A i \in 1 .. a.len :
                       ble_last'.wr[i + 1] =
                           Ev("TX_DATA", BleTxBufs[a.data][i - 1], 0)
                 /\ BLE_CTRL_TX_START \in ble_regs'.CTRL
                 /\ ~g_ble_handle'.tx_complete
            ELSE /\ ble_last'.ret \in {STATUS_INVALID_PARAM, STATUS_NOT_READY,
                                       STATUS_TIMEOUT}
                 /\ (ble_last'.ret = STATUS_TIMEOUT
                       <=> /\ a.data # NULL /\ a.len <= 244
                           /\ h.initialized
                           /\ h.state = BLE_STATE_CONNECTED)
                 /\ ble_last'.wr = <<>>
                 /\ UNCHANGED <<g_ble_handle, ble_regs>> ]_vars

\* a payload of the capped length, written to its last byte, sent on a
\* Connected link after an earlier transmission had completed, with the
\* transmitter seen free at the last read the count allows
C22_Witness ==
    /\ ble_last.op = "send_data"
    /\ ble_last.ret = STATUS_OK
    /\ Len(ble_last.wr) = BLE_MAX_PAYLOAD_SIZE + 1
    /\ ble_last.wr[BLE_MAX_PAYLOAD_SIZE + 1].a = BleTxBufs[1][BLE_MAX_PAYLOAD_SIZE - 1]
    /\ ble_last.arg.clear = BLE_TX_BUDGET - 1
    /\ g_ble_handle.state = BLE_STATE_CONNECTED
    /\ ~g_ble_handle.tx_complete
    /\ \E k \in QueueSlots : g_ble_handle.event_queue[k].type = BLE_EVT_DATA_SENT

\* C23: a ble_init call that is given a configuration and a callback and
\* does not see the ready flag before its count runs out returns
\* STATUS_TIMEOUT, and a ble_init call that returns STATUS_TIMEOUT has
\* configured nothing: the handle (link state, initialized flag, stored
\* configuration, callback, local address, queue indices) is as before,
\* INT_EN, TX_POWER and ADV_CTRL are as before, the interrupt controller is
\* as before, and the ENABLE bit of CTRL is as before; on an engine that
\* was not initialized no interrupt source and no interrupt line is
\* enabled and ENABLE is clear.
C23_InitTimeoutConfiguresNothing ==
    [][ ble_last'.op = "init" =>
        /\ \A cfg \in DOMAIN BleConfigs, ready \in {BLE_READY_BUDGET, Never} :
              ble_init(cfg, NULL + 1, ready) => ble_last'.ret = STATUS_TIMEOUT
        /\ ble_last'.ret = STATUS_TIMEOUT =>
              /\ UNCHANGED <<g_ble_handle, gic_vars>>
              /\ ble_regs'.INT_EN = ble_regs.INT_EN
              /\ ble_regs'.TX_POWER = ble_regs.TX_POWER
              /\ ble_regs'.ADV_CTRL = ble_regs.ADV_CTRL
              /\ (BLE_CTRL_ENABLE \in ble_regs'.CTRL
                    <=> BLE_CTRL_ENABLE \in ble_regs.CTRL)
              /\ ~g_ble_handle.initialized =>
                    /\ ble_regs'.INT_EN = {}
                    /\ IRQ_BLE \notin gic_enabled'
                    /\ BLE_CTRL_ENABLE \notin ble_regs'.CTRL ]_vars

\* a timed-out ble_init on an engine that an earlier call had initialized
\* and that is advertising with events queued
C23_Witness ==
    /\ ble_last.op = "init"
    /\ ble_last.ret = STATUS_TIMEOUT
    /\ g_ble_handle.initialized
    /\ g_ble_handle.state = BLE_STATE_ADVERTISING
    /\ QueuedCount(QueueOf(g_ble_handle)) >= 2
    /\ BLE_CTRL_ENABLE \in ble_regs.CTRL

\* C24: the event callback is invoked only from within ble_process.  A
\* step in which the callback is handed an event is a ble_process call;
\* ble_irq_handler and the commands ble_init, ble_deinit,
\* ble_start_advertising, ble_stop_advertising, ble_start_scan,
\* ble_stop_scan, ble_connect, ble_disconnect and ble_send_data hand it
\* none, so every event queued stays in the queue until ble_process runs.
C24_CallbackOnlyInProcess ==
    [][ /\ ble_last'.cb # <<>> => ble_process
        /\ ble_last'.op # "process" =>
              /\ ble_last'.cb = <<>>
              /\ g_ble_handle'.evt_queue_tail = g_ble_handle.evt_queue_tail
                 \/ (ble_last'.op = "init" /\ ble_last'.ret = STATUS_OK) ]_vars

\* a ble_process call that hands the callback the events an interrupt
\* entry and a command had queued before it
C24_Witness ==
    /\ ble_last.op = "process"
    /\ Len(ble_last.cb) = 2
    /\ ble_last.cb[1].type = BLE_EVT_CONNECTED
    /\ ble_last.cb[2].type = BLE_EVT_ADV_STARTED
    /\ g_ble_handle.evt_queue_tail = g_ble_handle.evt_queue_head

\* C25: the busy-wait count of the I2C blocking calls grows with the
\* timeout argument.  Of two waits whose flag never shows, the one with
\* the larger timeout_ms makes at least as many polls as the other, and a
\* wait makes timeout_ms * 10000 polls exactly.
C25_WaitCountMonotone ==
    LET a == i2c_wait[1]
        b == i2c_wait[2]
        \* timeout_ms * 10000 without wrapping, in units of 2^16 and below
        lo_prod(t) == (t % 65536) * 10000
        exact(t) == [hi |-> (t \div 65536) * 10000 + lo_prod(t) \div 65536,
                     lo |-> lo_prod(t) % 65536]
        geq(x, y) == x.hi > y.hi \/ (x.hi = y.hi /\ x.lo >= y.lo)
    IN  /\ a.timeout_ms < b.timeout_ms => geq(b.polls, a.polls)
        /\ b.polls = exact(b.timeout_ms)

\* C26: i2c_irq_handler changes the state or the buffer index of an
\* instance, writes the caller's buffer or invokes the callback only when
\* the state at entry is BusyTx or BusyRx.  An entry that finds an
\* initialized instance Idle or in Error leaves state, index, buffer
\* memory and stored callback as they were and invokes no callback, for
\* every combination of status flags.
C26_HandlerActsOnlyWhileBusy ==
    [][ (/\ i2c_last'.op = "irq"
         /\ i2c_last'.inst < I2C_INSTANCE_MAX
         /\ g_i2c_handles[i2c_last'.inst].initialized
         /\ g_i2c_handles[i2c_last'.inst].state
               \in {I2C_STATE_IDLE, I2C_STATE_ERROR})
        => LET h  == g_i2c_handles[i2c_last'.inst]
               h1 == g_i2c_handles'[i2c_last'.inst]
           IN  /\ h1.state = h.state
               /\ h1.buffer_idx = h.buffer_idx
               /\ h1.callback = h.callback
               /\ mem' = mem
               /\ CountEv(i2c_last'.ev, "CB") = 0 ]_vars

\* C27: an entry of i2c_irq_handler acts on one reading of SR1 and runs
\* at most one of its five branches, the first applicable one in the order
\* start-sent, address-acknowledged, transmitter-empty (in BusyTx),
\* receiver-not-empty (in BusyRx), acknowledge-failure.  With several
\* flags set together the register and buffer accesses of the entry are
\* those of that one branch and of no other; with no applicable flag the
\* entry does nothing.
C27_OneBranchByPriority ==
    [][ (i2c_last'.op = "irq" /\ i2c_last'.inst < I2C_INSTANCE_MAX) =>
        LET h   == g_i2c_handles[i2c_last'.inst]
            sr1 == irq_sr1'
            ev  == i2c_last'.ev
            has(k) == CountEv(ev, k) > 0
            first ==
                IF I2C_SR1_SB \in sr1 THEN "SB"
                ELSE IF I2C_SR1_ADDR \in sr1 THEN "ADDR"
                ELSE IF I2C_SR1_TXE \in sr1 /\ h.state = I2C_STATE_BUSY_TX THEN "TXE"
                ELSE IF I2C_SR1_RXNE \in sr1 /\ h.state = I2C_STATE_BUSY_RX THEN "RXNE"
                ELSE IF I2C_SR1_AF \in sr1 THEN "AF"
                ELSE "NONE"
            \* what of each branch shows in the accesses of the entry
            ran(b) ==
                CASE b = "SB"   -> has("DR") /\ ~has("TXRD")
                  [] b = "ADDR" -> has("SR2")
                  [] b = "TXE"  -> has("TXRD")
                                   \/ (has("STOP") /\ ~has("AFCLR") /\ ~has("RDDR"))
                  [] b = "RXNE" -> has("RDDR")
                  [] b = "AF"   -> has("AFCLR")
            waiting == h.buffer_idx >= h.buffer_len /\ I2C_SR1_BTF \notin sr1
        IN  /\ \A b \in {"SB", "ADDR", "TXE", "RXNE", "AF"} :
                  ran(b) => b = first
            /\ first \in {"SB", "ADDR", "RXNE", "AF"} => ran(first)
            /\ first = "TXE" => (ran("TXE") <=> ~waiting)
            /\ first = "NONE" =>
                  /\ ev = <<>>
                  /\ UNCHANGED <<g_i2c_handles, i2c_regs, mem>> ]_vars

\* an entry in BusyRx with the transmitter-empty, receiver-not-empty and
\* acknowledge-failure flags set together: the receive branch ran and the
\* acknowledge-failure branch did not
C27_Witness ==
    /\ i2c_last.op = "irq"
    /\ i2c_last.inst \in Instances
    /\ irq_sr1 = {I2C_SR1_TXE, I2C_SR1_BTF, I2C_SR1_RXNE, I2C_SR1_AF}
    /\ i2c_last.st = I2C_STATE_BUSY_RX
    /\ i2c_last.ev[1].k = "RDDR"
    /\ CountEv(i2c_last.ev, "AFCLR") = 0
    /\ g_i2c_handles[i2c_last.inst].buffer_idx = 1

\* C28: in every i2c_read_blocking call of length N >= 1 that gets past
\* the address phase, ACK is cleared and STOP is issued exactly once, the
\* one right after the other, after byte N-2 has been read (right after
\* the address phase when N = 1) and before byte N-1 is waited for and
\* read; while bytes 0..N-2 are read ACK stays set and no STOP is issued.
C28_ReadStopsBeforeLastByte ==
    [][(i2c_last'.op = "read_blocking" /\ i2c_last'.inst \in Instances)
       => \A a \in BlockingArgs :
             \A w \in WaitInputs(a[3] + 2), dr \in RxBytes :
                ( /\ a[3] >= 1
                  /\ i2c_read_blocking(a[1], a[2].addr, RxData(a[2]), a[3],
                                       w[1], w[2], dr)
                  /\ CountEv(i2c_last'.ev, "SR2") = 1 )
                => LET ev == i2c_last'.ev
                       clr == {k \in 1 .. Len(ev) : ev[k] = Ev("ACK", 0, 0)}
                       stp == {k \in 1 .. Len(ev) : ev[k].k = "STOP"}
                       reads(k) == CountEv(SubSeq(ev, 1, k), "RDDR")
                   IN  /\ Cardinality(clr) = 1
                       /\ Cardinality(stp) = 1
                       /\ \A k \in clr : /\ k + 1 \in stp
                                         /\ reads(k) = a[3] - 1
                                         /\ ev[k - 1].k \in {"SR2", "RXWR"} ]_vars

\* C29: an entry of ble_irq_handler with any subset of the flags
\* connected, disconnected, rx-done, tx-done and error serves them in that
\* order.  Its ble_enqueue_event calls are, one after the other on the
\* same queue, those of the events Connected, Disconnected, DataSent and
\* Error whose flags are set, in this order; rx-done enqueues nothing,
\* stages the received bytes and sets rx_pending; tx-done sets
\* tx_complete.  The link state after the entry is Error if the error
\* flag was set, otherwise Idle if disconnected was set, otherwise
\* Connected if connected was set, otherwise as before.  The flags of an
\* entry are read off the events it offered to the queue, with and without
\* rx-done, and the entry is one of these two.
C29_FixedFlagOrder ==
    [][ ble_last'.op = "irq" =>
        LET C29_OrderSeq ==
              <<[flag |-> BLE_INT_CONNECTED, type |-> BLE_EVT_CONNECTED],
                [flag |-> BLE_INT_DISCONNECTED, type |-> BLE_EVT_DISCONNECTED],
                [flag |-> BLE_INT_TX_DONE, type |-> BLE_EVT_DATA_SENT],
                [flag |-> BLE_INT_ERROR, type |-> BLE_EVT_ERROR]>>
            C29_Order == {C29_OrderSeq[k] : k \in 1 .. 4}
            types == {ble_last'.enq[k].event.type :
                         k \in 1 .. Len(ble_last'.enq)}
            queued == {o.flag : o \in {p \in C29_Order : p.type \in types}}
            entries == {queued, queued \cup {BLE_INT_RX_DONE}}
        IN
        /\ \E f \in entries, n \in BleRxLens : ble_irq_handler(f, n, BleRxByte)
        /\ \A f \in entries, n \in BleRxLens :
           ble_irq_handler(f, n, BleRxByte) =>
              LET h   == g_ble_handle
                  h1  == g_ble_handle'
                  enq == ble_last'.enq
                  due == SelectSeq(C29_OrderSeq, LAMBDA o : o.flag \in f)
              IN  /\ Len(enq) = Len(due)
                  /\ \A k \in 1 .. Len(due) :
                        /\ enq[k].event.type = due[k].type
                        /\ enq[k].before = IF k = 1 THEN QueueOf(h)
                                           ELSE enq[k - 1].after
                  /\ QueueOf(h1) = IF enq = <<>> THEN QueueOf(h)
                                   ELSE enq[Len(enq)].after
                  /\ h1.state =
                        IF BLE_INT_ERROR \in f THEN BLE_STATE_ERROR
                        ELSE IF BLE_INT_DISCONNECTED \in f THEN BLE_STATE_IDLE
                        ELSE IF BLE_INT_CONNECTED \in f THEN BLE_STATE_CONNECTED
                        ELSE h.state
                  /\ IF BLE_INT_RX_DONE \in f
                     THEN /\ h1.rx_pending
                          /\ h1.rx_len = n
                          /\ \A i \in 1 .. n : h1.rx_buffer[i] = BleRxByte
                     ELSE /\ h1.rx_pending = h.rx_pending
                          /\ h1.rx_len = h.rx_len
                          /\ h1.rx_buffer = h.rx_buffer
                  /\ h1.tx_complete = (h.tx_complete \/ BLE_INT_TX_DONE \in f) ]_vars

\* an entry with all five flags set after a ble_connect: four events
\* queued in order, data staged, tx_complete set, the link in Error
C29_Witness ==
    /\ ble_last.op = "irq"
    /\ Len(ble_last.enq) = 4
    /\ \A k \in 1 .. 4 : ble_last.enq[k].ret = STATUS_OK
    /\ ble_last.enq[1].event.type = BLE_EVT_CONNECTED
    /\ ble_last.enq[1].event.peer_addr = BleAddrs[1]
    /\ ble_last.enq[4].event.type = BLE_EVT_ERROR
    /\ g_ble_handle.state = BLE_STATE_ERROR
    /\ g_ble_handle.rx_pending
    /\ g_ble_handle.tx_complete

\* C30: every ble_start_advertising and ble_stop_advertising call that
\* returns STATUS_OK has its event (AdvStarted, AdvStopped) stored in the
\* queue, whatever the queue held at the time of the call, so that
\* ble_process can deliver it.
C30_AdvEventAlwaysQueued ==
    (/\ ble_last.op \in {"start_advertising", "stop_advertising"}
     /\ ble_last.ret = STATUS_OK)
    => /\ Len(ble_last.enq) = 1
       /\ ble_last.enq[1].ret = STATUS_OK
       /\ QueuedCount(ble_last.enq[1].after)
             = QueuedCount(ble_last.enq[1].before) + 1

\* C31: gic_set_priority returns STATUS_INVALID_PARAM and leaves the whole
\* priority table as it was for a line id of MAX_IRQ_NUM or more; for a
\* smaller id it returns STATUS_OK, the priority byte of that line is the
\* value given, and every other byte, in the same word and in the other
\* words, is as before.
C31_SetPriorityTouchesOneByte ==
    [][ gic_last'.op = "set_priority" =>
        LET n == gic_last'.irq_num
            p == gic_last'.priority
        IN  IF n >= MAX_IRQ_NUM
            THEN /\ gic_last'.ret = STATUS_INVALID_PARAM
                 /\ gic_priority' = gic_priority
            ELSE /\ gic_last'.ret = STATUS_OK
                 /\ \A w \in DOMAIN gic_priority, b \in 1 .. 4 :
                       gic_priority'[w][b] =
                          IF w = n \div 4 /\ b = (n % 4) + 1 THEN p
                          ELSE gic_priority[w][b] ]_vars

\* line 1 given a lower priority after the highest one, with two other
\* lines of its word and a line of another word holding priorities
C31_Witness ==
    /\ gic_last.op = "set_priority"
    /\ gic_last.irq_num = 1
    /\ gic_last.ret = STATUS_OK
    /\ gic_priority[0] = <<U8 - 1, I2C_IRQ_PRIORITY, 0, U8 - 1>>
    /\ gic_priority[IRQ_BLE \div 4][1] = I2C_IRQ_PRIORITY

\* C32: every blocking call (i2c_write_blocking, i2c_read_blocking,
\* ble_send_data, ble_init) that is in one of its wait loops returns, however
\* the hardware flags behave, also when they never change: each evaluation
\* of a wait that does not find its condition met takes one off the counter.
C32_BlockingCallsReturn == (blk.pc = "wait") ~> (blk.pc = "done")

\* a ble_init whose ready flag never showed: it returned STATUS_TIMEOUT
\* when its counter had run out
C32_Witness ==
    /\ blk.pc = "done"
    /\ blk.op = "ble_init"
    /\ blk.ret = STATUS_TIMEOUT
    /\ ~blk.seen

\* C38: a bounded wait of ble_init (ready), ble_send_data (transmitter
\* free) or i2c_write_blocking (bus free) makes its call return a timeout
\* or busy error only if no read of the flag by that wait found the awaited
\* condition: a call whose wait read the condition as met, also at its
\* last evaluation, goes on.
C38_TimeoutOnlyIfNeverObserved ==
    (/\ blk.pc = "done"
     /\ blk.ret \in {STATUS_TIMEOUT, STATUS_BUSY}
     /\ BlkWaits(blk.op, blk.len)[blk.stage] \in BlkInlineWaits)
    => ~blk.seen

\* C33: on hardware that keeps raising the interrupts a transfer is waiting
\* for, an instance that an accepted i2c_write_async or i2c_read_async has
\* put in BusyTx or BusyRx leaves that state and is Idle or in Error, for
\* every length the calls accept.
C33_AsyncTransferEnds ==
    (g_i2c_handles[focus].state \in {I2C_STATE_BUSY_TX, I2C_STATE_BUSY_RX})
    ~> (g_i2c_handles[focus].state \in {I2C_STATE_IDLE, I2C_STATE_ERROR})

\* a write of MaxLen bytes finished by a transmit-empty, byte-finished
\* entry after all its bytes went out
C33_Witness ==
    /\ i2c_last.op = "irq"
    /\ i2c_last.inst = focus
    /\ i2c_last.st = I2C_STATE_BUSY_TX
    /\ g_i2c_handles[focus].state = I2C_STATE_IDLE
    /\ g_i2c_handles[focus].buffer_len = MaxLen
    /\ g_i2c_handles[focus].buffer_idx = MaxLen

\* C37: when i2c_irq_handler invokes the completion callback (write done,
\* read done, acknowledge failure) the call is the last thing the entry has
\* done and the instance state is already final: Idle for STATUS_OK, Error
\* otherwise.  When the callback is back the handler changes nothing of the
\* instance, its registers or the buffers.  A callback invoked with
\* STATUS_OK that asks for a new async transfer on the same instance has it
\* accepted, and the handle is as the request set it.
C37_StateFinalBeforeCallback ==
    [][ /\ (i2c_cb.pc = "main" /\ i2c_cb'.pc = "callback") =>
              /\ i2c_last'.ev[Len(i2c_last'.ev)].k = "CB"
              /\ CountEv(i2c_last'.ev, "CB") = 1
              /\ g_i2c_handles'[i2c_cb'.inst].state =
                    IF i2c_cb'.result = STATUS_OK THEN I2C_STATE_IDLE
                    ELSE I2C_STATE_ERROR
        /\ i2c_cb.pc = "return" =>
              /\ g_i2c_handles' = g_i2c_handles
              /\ i2c_regs' = i2c_regs
              /\ mem' = mem
        /\ (/\ i2c_cb.pc = "callback"
            /\ i2c_cb.result = STATUS_OK
            /\ i2c_cb'.started) =>
              /\ i2c_last'.ret = STATUS_OK
              /\ g_i2c_handles'[i2c_cb.inst].state =
                    IF i2c_last'.op = "write_async" THEN I2C_STATE_BUSY_TX
                    ELSE I2C_STATE_BUSY_RX
              /\ g_i2c_handles'[i2c_cb.inst].buffer_idx = 0 ]_vars

\* the handler is back from a callback that, called with STATUS_OK after a
\* write, started a read of MaxLen bytes; the instance is in BusyRx for it
C37_Witness ==
    /\ i2c_cb.pc = "main"
    /\ i2c_cb.started
    /\ i2c_cb.result = STATUS_OK
    /\ i2c_last.op = "read_async"
    /\ i2c_last.ret = STATUS_OK
    /\ g_i2c_handles[i2c_cb.inst].state = I2C_STATE_BUSY_RX
    /\ g_i2c_handles[i2c_cb.inst].buffer_len = MaxLen
    /\ g_i2c_handles[i2c_cb.inst].buffer_idx = 0

\* The BLE engine torn down and brought up again, with interrupt entries
\* presenting any combination of the five flags at any time in between.
NextBleOff ==
    \/ BleInitMain
    \/ BleDeinit
    \/ BleIrqAllFlags

SpecBleOff == InitBle /\ [][NextBleOff]_vars

\* C36: whenever the initialized flag of the BLE engine is false its link
\* state is BLE_STATE_OFF, and an interrupt entry taken while the flag is
\* false (before ble_init, or after a successful ble_deinit) queues no
\* event, whatever flags it is presented with.
C36_UninitializedStaysOff ==
    ~g_ble_handle.initialized
    => /\ g_ble_handle.state = BLE_STATE_OFF
       /\ ble_last.op = "irq" => ble_last.enq = <<>>

\* ble_start_advertising and ble_stop_advertising with their
\* ble_enqueue_event call statement by statement, and interrupt entries
\* between the statements: no statement of the call masks the BLE line.
\* ble_pc.pc is "enq_head" before the load of evt_queue_head, "enq_test"
\* before the comparison with evt_queue_tail, "enq_copy" before the memcpy
\* and "enq_store" before the store to evt_queue_head; ble_pc.evt is the
\* caller's evt and ble_pc.idx the local next_head.  A call is made while
\* fewer than MaxQueued events have been queued since ble_init.
BleAdvEnter ==
    /\ ble_pc.pc = "main"
    /\ g_ble_handle.initialized
    /\ Len(ble_fifo) < MaxQueued
    /\ \E start \in BOOLEAN :
          /\ IF start
             THEN g_ble_handle.state \in {BLE_STATE_IDLE, BLE_STATE_CONNECTED}
             ELSE g_ble_handle.state = BLE_STATE_ADVERTISING
          /\ ble_regs' = [ble_regs EXCEPT !.CTRL =
                             IF start THEN @ \cup {BLE_CTRL_ADV_START}
                                      ELSE @ \ {BLE_CTRL_ADV_START}]
          /\ g_ble_handle' = [g_ble_handle EXCEPT !.state =
                                 IF start THEN BLE_STATE_ADVERTISING
                                          ELSE BLE_STATE_IDLE]
          /\ ble_pc' = [ble_pc EXCEPT
                          !.pc = "enq_head",
                          !.evt = BleEvent(IF start THEN BLE_EVT_ADV_STARTED
                                                    ELSE BLE_EVT_ADV_STOPPED,
                                           ZeroAddr, <<>>)]
          /\ ble_last' = BleLast(IF start THEN "start_advertising"
                                          ELSE "stop_advertising",
                                 STATUS_OK, <<>>, <<>>)
    /\ UNCHANGED <<i2c_vars, i2c_xfer, focus, gic_vars, ble_fifo, irq_last,
                   i2c_round, gic_last, i2c_wait, irq_sr1, blk, i2c_cb>>

\* next_head = (evt_queue_head + 1) % BLE_EVENT_QUEUE_SIZE
BleEnqHead ==
    /\ ble_pc.pc = "enq_head"
    /\ ble_pc' = [ble_pc EXCEPT
                    !.pc = "enq_test",
                    !.idx = (g_ble_handle.evt_queue_head + 1)
                               % BLE_EVENT_QUEUE_SIZE]
    /\ ble_last' = BleLast("enqueue_head", STATUS_OK, <<>>, <<>>)
    /\ UNCHANGED <<g_ble_handle, ble_fifo>>
    /\ BleStepFrame

\* if (next_head == evt_queue_tail): the call returns STATUS_ERROR, which
\* the caller discards
BleEnqTest ==
    /\ ble_pc.pc = "enq_test"
    /\ IF ble_pc.idx = g_ble_handle.evt_queue_tail
       THEN /\ ble_pc' = [ble_pc EXCEPT
                            !.pc = "main",
                            !.evt = BleEvent(BLE_EVT_NONE, ZeroAddr, <<>>),
                            !.idx = 0]
            /\ ble_last' = BleLast("enqueue_return", STATUS_ERROR, <<>>, <<>>)
       ELSE /\ ble_pc' = [ble_pc EXCEPT !.pc = "enq_copy"]
            /\ ble_last' = BleLast("enqueue_test", STATUS_OK, <<>>, <<>>)
    /\ UNCHANGED <<g_ble_handle, ble_fifo>>
    /\ BleStepFrame

\* memcpy(&event_queue[evt_queue_head], event, ...): evt_queue_head is not
\* volatile, so the build may load it again or use the value next_head
\* was computed from
BleEnqCopy ==
    /\ ble_pc.pc = "enq_copy"
    /\ \E slot \in {g_ble_handle.evt_queue_head,
                    (ble_pc.idx + BLE_EVENT_QUEUE_SIZE - 1)
                       % BLE_EVENT_QUEUE_SIZE} :
          g_ble_handle' = [g_ble_handle EXCEPT !.event_queue[slot] = ble_pc.evt]
    /\ ble_pc' = [ble_pc EXCEPT !.pc = "enq_store"]
    /\ ble_last' = BleLast("enqueue_copy", STATUS_OK, <<>>, <<>>)
    /\ UNCHANGED ble_fifo
    /\ BleStepFrame

\* evt_queue_head = next_head, and the return of STATUS_OK
BleEnqStore ==
    /\ ble_pc.pc = "enq_store"
    /\ g_ble_handle' = [g_ble_handle EXCEPT !.evt_queue_head = ble_pc.idx]
    /\ ble_fifo' = Append(ble_fifo, ble_pc.evt)
    /\ ble_pc' = [ble_pc EXCEPT
                    !.pc = "main",
                    !.evt = BleEvent(BLE_EVT_NONE, ZeroAddr, <<>>),
                    !.idx = 0]
    /\ ble_last' = BleLast("enqueue_return", STATUS_OK, <<>>, <<>>)
    /\ BleStepFrame

\* an interrupt entry at any position of the foreground, while fewer than
\* MaxQueued events have been queued since ble_init
BleIrqPreempt ==
    /\ IRQ_BLE \in gic_enabled
    /\ Len(ble_fifo) < MaxQueued
    /\ \E f \in BleQueueIrqInputs : ble_irq_handler(f, 0, 0)
    /\ ble_fifo' = ble_fifo \o Enqueued(ble_last'.enq)
    /\ UNCHANGED <<i2c_vars, i2c_xfer, focus, ble_pc, irq_last, i2c_round,
                   gic_last, i2c_wait, irq_sr1, blk, i2c_cb>>

NextBleEnq ==
    \/ BleInitMain
    \/ BleIrqPreempt
    \/ BleAdvEnter
    \/ BleEnqHead
    \/ BleEnqTest
    \/ BleEnqCopy
    \/ BleEnqStore

SpecBleEnq == InitBle /\ [][NextBleEnq]_vars

\* the events between evt_queue_tail and evt_queue_head, oldest first
BleQueued(h) ==
    [k \in 1 .. QueuedCount(QueueOf(h)) |->
        h.event_queue[(h.evt_queue_tail + k - 1) % BLE_EVENT_QUEUE_SIZE]]

\* how often event e occurs in the sequence q
BleOccurs(q, e) == Cardinality({k \in 1 .. Len(q) : q[k] = e})

\* C34: when a ble_start_advertising or ble_stop_advertising call has
\* returned, the queue holds, each in a slot of its own, the event of the
\* call and every event an interrupt entry queued, also when the entries
\* ran between the statements of the call's ble_enqueue_event.
C34_PreemptedEnqueueKeepsAll ==
    (ble_pc.pc = "main" /\ g_ble_handle.initialized)
    => /\ Len(BleQueued(g_ble_handle)) = Len(ble_fifo)
       /\ \A k \in 1 .. Len(ble_fifo) :
             BleOccurs(BleQueued(g_ble_handle), ble_fifo[k])
                = BleOccurs(ble_fifo, ble_fifo[k])

\* The pending-receive part of ble_process statement by statement, with
\* rx-done interrupt entries between the statements.  ble_pc.pc is "main"
\* outside ble_process, "rx_clear" before the store to rx_pending, "rx_len"
\* before the stores to evt.type and evt.data_len, "rx_copy" before the two
\* memcpy calls and "rx_call" before the callback; "loop" is the drain
\* loop, which finds the queue empty since no entry queues an event.
\* ble_fifo holds the DataReceived events owed to the callback: one for
\* each payload an entry has staged, oldest first.  An entry is taken
\* while fewer than MaxQueued payloads are owed.
BleIrqStage ==
    /\ IRQ_BLE \in gic_enabled
    /\ Len(ble_fifo) < MaxQueued
    /\ \E n \in 1 .. MaxLen, byte \in {BleRxByte, BleRxByte + 1} :
          /\ ble_irq_handler({BLE_INT_RX_DONE}, n, byte)
          /\ ble_fifo' = Append(ble_fifo,
                                BleEvent(BLE_EVT_DATA_RECEIVED,
                                         g_ble_handle.peer_addr,
                                         [k \in 1 .. n |-> byte]))
    /\ UNCHANGED <<i2c_vars, i2c_xfer, focus, ble_pc, irq_last, i2c_round,
                   gic_last, i2c_wait, irq_sr1, blk, i2c_cb>>

\* if (g_ble_handle.rx_pending)
BleRxTest ==
    /\ ble_pc.pc = "main"
    /\ g_ble_handle.initialized
    /\ ble_pc' = [ble_pc EXCEPT
                    !.pc = IF g_ble_handle.rx_pending THEN "rx_clear" ELSE "loop"]
    /\ ble_last' = BleLast("process_rx_test", STATUS_OK, <<>>, <<>>)
    /\ UNCHANGED <<g_ble_handle, ble_fifo>>
    /\ BleStepFrame

\* g_ble_handle.rx_pending = false
BleRxClear ==
    /\ ble_pc.pc = "rx_clear"
    /\ g_ble_handle' = [g_ble_handle EXCEPT !.rx_pending = FALSE]
    /\ ble_pc' = [ble_pc EXCEPT !.pc = "rx_len"]
    /\ ble_last' = BleLast("process_rx_clear", STATUS_OK, <<>>, <<>>)
    /\ UNCHANGED ble_fifo
    /\ BleStepFrame

\* evt.type = BLE_EVT_DATA_RECEIVED; evt.data_len = g_ble_handle.rx_len
BleRxLen ==
    /\ ble_pc.pc = "rx_len"
    /\ ble_pc' = [ble_pc EXCEPT !.pc = "rx_copy",
                                !.evt.type = BLE_EVT_DATA_RECEIVED,
                                !.evt.data_len = g_ble_handle.rx_len]
    /\ ble_last' = BleLast("process_rx_len", STATUS_OK, <<>>, <<>>)
    /\ UNCHANGED <<g_ble_handle, ble_fifo>>
    /\ BleStepFrame

\* memcpy(evt.data, rx_buffer, rx_len) and the copy of peer_addr, which no
\* entry changes: rx_len is not volatile, so the build may load it again
\* or use the value stored to evt.data_len
BleRxCopy ==
    /\ ble_pc.pc = "rx_copy"
    /\ \E len \in {g_ble_handle.rx_len, ble_pc.evt.data_len} :
          ble_pc' = [ble_pc EXCEPT
                       !.pc = "rx_call",
                       !.evt.data = SubSeq(g_ble_handle.rx_buffer, 1, len),
                       !.evt.peer_addr = g_ble_handle.peer_addr]
    /\ ble_last' = BleLast("process_rx_copy", STATUS_OK, <<>>, <<>>)
    /\ UNCHANGED <<g_ble_handle, ble_fifo>>
    /\ BleStepFrame

\* g_ble_handle.callback(&evt)
BleRxCall ==
    /\ ble_pc.pc = "rx_call"
    /\ ble_pc' = [ble_pc EXCEPT !.pc = "loop"]
    /\ ble_last' = BleLast("process_rx_call", STATUS_OK, <<>>,
                           IF g_ble_handle.callback # NULL
                           THEN <<ble_pc.evt>> ELSE <<>>)
    /\ ble_fifo' = DropFirst(ble_fifo, 1)
    /\ UNCHANGED g_ble_handle
    /\ BleStepFrame

NextBleStage ==
    \/ BleInitMain
    \/ BleIrqStage
    \/ BleRxTest
    \/ BleRxClear
    \/ BleRxLen
    \/ BleRxCopy
    \/ BleRxCall
    \/ BleProcTest

SpecBleStage == InitBle /\ [][NextBleStage]_vars

\* C35: every payload an rx-done entry stages reaches the callback once,
\* as a DataReceived event with the bytes and the length of that payload:
\* each DataReceived callback of ble_process carries the oldest payload
\* staged and not yet delivered, and when ble_process has returned with
\* rx_pending clear no staged payload is left undelivered; this for rx-done
\* entries at any position of ble_process and between its calls.
C35_StagedPayloadDeliveredOnce ==
    [][ /\ BleRxCall => /\ ble_fifo # <<>>
                        /\ ble_last'.cb = <<Head(ble_fifo)>>
        /\ (ble_pc'.pc = "main" /\ ~g_ble_handle'.rx_pending)
              => ble_fifo' = <<>> ]_vars

====
